---- MODULE Spec2Model ----
(***************************************************************************)
(* A model of the review-scraper pipeline: the scrape orchestrator         *)
(* (Manager.ScrapeAll), the source adapters' Scrape loops, the             *)
(* classification engine (Analyzer.Analyze) and the routing engine         *)
(* (Router.Route, AddDepartment, UpdateMapping).                           *)
(*                                                                         *)
(* Each subsystem has its own specification over its own variables; the    *)
(* variables of the other subsystems stay at their initial values.         *)
(***************************************************************************)
EXTENDS Integers, Sequences, FiniteSets, TLC

(***************************************************************************)
(* Bounds of the model.                                                    *)
(***************************************************************************)
\* longest review list one Scrape call returns to ScrapeAll
MaxReviews == 2
\* most AddDepartment / UpdateMapping calls in one run of the router
MaxMutations == 2

(***************************************************************************)
(* Generic helpers.                                                        *)
(***************************************************************************)
RECURSIVE SeqsUpTo(_, _)
SeqsUpTo(S, n) ==
    IF n = 0 THEN {<<>>}
    ELSE LET shorter == SeqsUpTo(S, n - 1)
         IN  shorter \cup {Append(s, x) : s \in {t \in shorter : Len(t) = n - 1}, x \in S}

Range(s) == {s[i] : i \in 1..Len(s)}

\* number of occurrences of x in the sequence s
Count(s, x) == Cardinality({i \in 1..Len(s) : s[i] = x})

VARIABLES
    \* ---- Manager.ScrapeAll ------------------------------------------------
    enabled,      \* [adapter -> BOOLEAN]: what each scraper's IsEnabled() reports
    mainPc,       \* position of the ScrapeAll call: "loop", "wait", "done"
    loopIdx,      \* index of the range loop over m.scrapers
    taskPc,       \* per adapter goroutine: "none", "scraping", "returned", "finished"
    taskRet,      \* per adapter: what its Scrape call returned
    results,      \* the shared accumulator `results`
    errs,         \* the shared accumulator `errs`
    ctxErr,       \* ctx.Err() of the context ScrapeAll derives: "nil", "deadline", "canceled"
    ret,          \* what ScrapeAll returned: [reviews, err]
    \* ---- Router ------------------------------------------------------------
    cfgDefault,   \* r.config.DefaultDepartment
    departments,  \* r.departments: department id -> Department
    mappingCache, \* r.mappingCache: category -> department id
    rwWriter,     \* the thread holding r.mu for writing, or "none"
    rwReaders,    \* the threads holding r.mu for reading
    routePc,      \* per Route caller: "idle", "lookup", "dept", "fallback", "done"
    routeArg,     \* per Route caller: the AnalysisResult passed
    routeDeptId,  \* per Route caller: the local departmentID of the direct lookup
    routeRet,     \* per Route caller: the Department returned
    mutPc,        \* per mutating caller: "idle", "addDept", "addMap", "update"
    mutArg,       \* per mutating caller: the argument of the call in progress
    mutations,    \* number of AddDepartment / UpdateMapping calls started
    \* ---- Analyzer ----------------------------------------------------------
    anaCfg,       \* a.config: [mode, apiKey, negativeThreshold, relevanceThreshold]
    cache,        \* a.cache: cache key -> AnalysisResult
    anaPc,        \* per Analyze caller: "idle", "strategy", "store", "done"
    anaReview,    \* per Analyze caller: the review passed
    anaResult,    \* per Analyze caller: the local `result` the strategy returned
    anaErr,       \* per Analyze caller: the local `err` the strategy returned
    anaRet,       \* per Analyze caller: what Analyze returned: [result, err]
    anaInvoked,   \* per Analyze caller: whether this call invoked the strategy
    anaPrior,     \* per Analyze caller: the cache keys some call had returned for when this call began
    firstResult,  \* cache key -> the result of the first call that returned for it
    failedKeys,   \* the cache keys some call's strategy has failed for
    anaRetry,     \* per Analyze caller: whether a call for its content had failed when it began
    \* ---- one adapter's Scrape call ----------------------------------------
    adKind,       \* the adapter: "Twitter", "G2" or "Trustpilot"
    adCfg,        \* its configuration: [units, pauseBetweenRequests, pauseDuration]
    adPc,         \* position of the call: "call", "check", "fetch", "pause", "returned"
    adIdx,        \* index of the keyword, or number of the page, of the iteration
    adReviews,    \* the reviews accumulated so far
    adCtxErr,     \* ctx.Err() of the context passed in: "nil", "canceled", "deadline"
    adSel,        \* the case the pacing select proceeds with: "none", "timer", "done"
    adLateCancel, \* whether the context was cancelled while the call waited in the pacing select
    adFetches,    \* number of keyword searches or page fetches started
    adRet,        \* what Scrape returned: [reviews, err]
    adExit,       \* where Scrape returned: "none", "check", "fetch", "pause", "end"
    \* ---- the pipeline driver -------------------------------------------------
    plKind,       \* the driver: "scheduled" (main's goroutine) or "manual" (handleRunScraping)
    plCtx,        \* ctx.Err() of the process context: "nil" or "canceled"
    plTick,       \* whether ticker.C holds a tick
    plSched,      \* the driver goroutine: "first", "select", "run", "stopped"
    plRuns,       \* number of pipeline runs started
    plPc,         \* position of the run in progress
    plTaskPc,     \* per adapter goroutine of ScrapeAll: "none", "scraping", "returned", "locked", "finished"
    plTaskRet,    \* per adapter: what its Scrape call returned
    plResults,    \* ScrapeAll's accumulator `results`
    plErrs,       \* ScrapeAll's accumulator `errs`
    plScrapeErr,  \* the error ScrapeAll returned to the run in progress
    plReviews,    \* the reviews ScrapeAll returned to the run in progress
    plIdx,        \* index of the review the loop of the run is at
    plAnalysis,   \* the local analysisResult and err of the iteration
    plDept,       \* the local department of the iteration
    plHeld,       \* per thread: the locks it holds
    plIo,         \* per thread: the outside call in progress: "none", "scrape", "strategy", "notify"
    plRecent,     \* the reviews AddRecentReview was given, in call order
    plCache,      \* the analyzer's cache: cache key -> result
    plAnalyzed,   \* the Analyze calls of the run that have returned: [idx, analysis]
    plRouted,     \* the Route calls of the run that have returned: [idx, analysis, dept]
    plNotified,   \* the Notify calls of the run that have returned: [idx, review, dept, analysis, err]
    \* one page of items on its way from an adapter to the local strategy
    itKind,       \* the adapter
    itExclude,    \* config.ExcludeWords of the Twitter adapter
    itFetched,    \* the tweets of one search, or the review elements of one page
    itPc,         \* "fetched", "filtered", "converted", "analyzed"
    itKept,       \* the tweets filterTweets returned
    itReviews,    \* the reviews the adapter made of them
    itResults     \* the results of analyzeLocal for the reviews analyzed so far

scrapeVars == <<enabled, mainPc, loopIdx, taskPc, taskRet, results, errs, ctxErr, ret>>

routerVars == <<cfgDefault, departments, mappingCache, rwWriter, rwReaders, routePc,
                routeArg, routeDeptId, routeRet, mutPc, mutArg, mutations>>

analyzerVars == <<anaCfg, cache, anaPc, anaReview, anaResult, anaErr, anaRet, anaInvoked,
                  anaPrior, firstResult, failedKeys, anaRetry>>

adapterVars == <<adKind, adCfg, adPc, adIdx, adReviews, adCtxErr, adSel, adLateCancel,
                 adFetches, adRet, adExit>>

pipelineVars == <<plKind, plCtx, plTick, plSched, plRuns, plPc, plTaskPc, plTaskRet,
                  plResults, plErrs, plScrapeErr, plReviews, plIdx, plAnalysis, plDept,
                  plHeld, plIo, plRecent, plCache, plAnalyzed, plRouted, plNotified>>

itemVars == <<itKind, itExclude, itFetched, itPc, itKept, itReviews, itResults>>

vars == <<scrapeVars, routerVars, analyzerVars, adapterVars, pipelineVars, itemVars>>

\* what the actions of one subsystem leave alone
notScrape == <<routerVars, analyzerVars, adapterVars, pipelineVars, itemVars>>
notRouter == <<scrapeVars, analyzerVars, adapterVars, pipelineVars, itemVars>>
notAnalyzer == <<scrapeVars, routerVars, adapterVars, pipelineVars, itemVars>>
notAdapter == <<scrapeVars, routerVars, analyzerVars, pipelineVars, itemVars>>
notPipeline == <<scrapeVars, routerVars, analyzerVars, adapterVars, itemVars>>
notItem == <<scrapeVars, routerVars, analyzerVars, adapterVars, pipelineVars>>

\* the values the variables of a subsystem keep while another one runs
ScrapeOff ==
    /\ enabled = <<>> /\ mainPc = "off" /\ loopIdx = 0 /\ taskPc = <<>> /\ taskRet = <<>>
    /\ results = <<>> /\ errs = <<>> /\ ctxErr = "nil" /\ ret = <<>>

RouterOff ==
    /\ cfgDefault = "" /\ departments = <<>> /\ mappingCache = <<>>
    /\ rwWriter = "none" /\ rwReaders = {} /\ routePc = <<>> /\ routeArg = <<>>
    /\ routeDeptId = <<>> /\ routeRet = <<>> /\ mutPc = <<>> /\ mutArg = <<>>
    /\ mutations = 0

AnalyzerOff ==
    /\ anaCfg = <<>> /\ cache = <<>> /\ anaPc = <<>> /\ anaReview = <<>>
    /\ anaResult = <<>> /\ anaErr = <<>> /\ anaRet = <<>> /\ anaInvoked = <<>>
    /\ anaPrior = <<>>
    /\ firstResult = <<>> /\ failedKeys = {} /\ anaRetry = <<>>

AdapterOff ==
    /\ adKind = "" /\ adCfg = <<>> /\ adPc = "off" /\ adIdx = 0 /\ adReviews = <<>>
    /\ adCtxErr = "nil" /\ adSel = "none" /\ adLateCancel = FALSE /\ adFetches = 0
    /\ adRet = <<>> /\ adExit = "none"

PipelineOff ==
    /\ plKind = "" /\ plCtx = "nil" /\ plTick = FALSE /\ plSched = "off" /\ plRuns = 0
    /\ plPc = "off" /\ plTaskPc = <<>> /\ plTaskRet = <<>> /\ plResults = <<>>
    /\ plErrs = <<>> /\ plScrapeErr = <<>> /\ plReviews = <<>> /\ plIdx = 0
    /\ plAnalysis = <<>> /\ plDept = <<>> /\ plHeld = <<>> /\ plIo = <<>>
    /\ plRecent = <<>> /\ plCache = <<>> /\ plAnalyzed = <<>> /\ plRouted = <<>>
    /\ plNotified = <<>>

ItemOff ==
    /\ itKind = "" /\ itExclude = <<>> /\ itFetched = <<>> /\ itPc = "off"
    /\ itKept = <<>> /\ itReviews = <<>> /\ itResults = <<>>

(***************************************************************************)
(* The scrape orchestrator.                                                *)
(***************************************************************************)
\* m.scrapers: values of the Scraper interface, in the order of the range loop.
\* Twitter and G2 are full adapters, Reddit is a stubScraper.
Scrapers == <<"Twitter", "G2", "Reddit">>

Adapters == Range(Scrapers)

StubAdapters == {"Reddit"}

\* Scraper.Name()
Name(a) == a

\* Scraper.IsEnabled()
IsEnabled(a) == enabled[a]

\* identifiers of the reviews an adapter can produce (source-prefixed)
ReviewIds(a) ==
    CASE a = "Twitter" -> {"twitter-1", "twitter-2"}
      [] a = "G2"      -> {"g2-p-1-0", "g2-p-1-1"}
      [] OTHER         -> {}

NoError == "nil"

\* errors a Scrape call can return: an adapter-scoped failure, or the
\* cancellation error of the context it was given
AdapterErrors == {"request failed", "context done"}

\* stubScraper.Scrape: an empty list and no error
StubScrape == [reviews |-> <<>>, err |-> NoError]

\* What one Scrape(ctx) call can return.  A full adapter returns the reviews it
\* collected and possibly an error (partial results come with the error); it
\* returns the context's error only once the context is done.
ScrapeOutcomes(a, done) ==
    IF a \in StubAdapters
    THEN {StubScrape}
    ELSE {[reviews |-> r, err |-> e] :
            r \in SeqsUpTo(ReviewIds(a), MaxReviews),
            e \in {NoError, "request failed"} \cup (IF done THEN {"context done"} ELSE {})}

NoRet == [reviews |-> <<>>, err |-> "unset"]

\* fmt.Errorf("%s scraper error: %w", scraper.Name(), err): the message holds
\* the adapter's name and the adapter's error message
WrapScraperError(a, e) == <<[name |-> Name(a), msg |-> e]>>

JoinErrorsKeepLast(combined, e) == e

\* fmt.Errorf("%v; %w", combinedErr, err): the two messages joined by "; "
JoinErrors(combined, e) == combined \o e

\* the loop that folds errs into combinedErr; a message is the sequence of its
\* "; "-separated parts, <<>> is the nil error
RECURSIVE CombineErrors(_)
CombineErrors(es) ==
    IF Len(es) = 0 THEN <<>>
    ELSE IF Len(es) = 1 THEN es[1]
    ELSE JoinErrors(CombineErrors(SubSeq(es, 1, Len(es) - 1)), es[Len(es)])

ScrapeAllResultFailOnAnyError(rs, es) ==
    IF Len(es) > 0
    THEN [reviews |-> <<>>, err |-> CombineErrors(es)]
    ELSE [reviews |-> rs, err |-> <<>>]

\* lines 317-331: the value ScrapeAll returns once wg.Wait() is over; the nil
\* error is the empty message
ScrapeAllResult(rs, es) ==
    IF Len(rs) = 0 /\ Len(es) > 0
    THEN [reviews |-> <<>>, err |-> CombineErrors(es)]
    ELSE [reviews |-> rs, err |-> <<>>]

\* the WaitGroup counter: wg.Add(1) at launch, wg.Done() when the goroutine ends
WgCount == Cardinality({a \in Adapters : taskPc[a] \in {"scraping", "returned"}})

WaitUnblockedOnDeadline == WgCount = 0 \/ ctxErr # "nil"

\* wg.Wait() returns
WaitUnblocked == WgCount = 0

ShouldLaunchAlways(s) == TRUE

\* the loop's `if !s.IsEnabled() { continue }`
ShouldLaunch(s) == IsEnabled(s)

InitScrape ==
    /\ enabled \in [Adapters -> BOOLEAN]
    /\ mainPc = "loop"
    /\ loopIdx = 1
    /\ taskPc = [a \in Adapters |-> "none"]
    /\ taskRet = [a \in Adapters |-> NoRet]
    /\ results = <<>>
    /\ errs = <<>>
    /\ ctxErr = "nil"
    /\ ret = NoRet
    /\ RouterOff
    /\ AnalyzerOff
    /\ AdapterOff
    /\ PipelineOff
    /\ ItemOff

\* one iteration of `for _, s := range m.scrapers`: skip a disabled scraper,
\* or wg.Add(1) and start its goroutine
ScrapeAllLoop ==
    /\ mainPc = "loop"
    /\ LET s == Scrapers[loopIdx]
       IN  taskPc' = IF ShouldLaunch(s) THEN [taskPc EXCEPT ![s] = "scraping"] ELSE taskPc
    /\ loopIdx' = loopIdx + 1
    /\ mainPc' = IF loopIdx = Len(Scrapers) THEN "wait" ELSE "loop"
    /\ UNCHANGED <<enabled, taskRet, results, errs, ctxErr, ret>>
    /\ UNCHANGED notScrape

\* the goroutine's `reviews, err := scraper.Scrape(ctx)` returns
TaskScrapeReturns(a) ==
    /\ taskPc[a] = "scraping"
    /\ \E o \in ScrapeOutcomes(a, ctxErr # "nil") :
          taskRet' = [taskRet EXCEPT ![a] = o]
    /\ taskPc' = [taskPc EXCEPT ![a] = "returned"]
    /\ UNCHANGED <<enabled, mainPc, loopIdx, results, errs, ctxErr, ret>>
    /\ UNCHANGED notScrape

\* an accumulation that keeps the reviews of a failed adapter as well
TaskAccumulateKeepingPartial(a) ==
    /\ taskPc[a] = "returned"
    /\ results' = results \o taskRet[a].reviews
    /\ errs' = IF taskRet[a].err # NoError
               THEN Append(errs, WrapScraperError(a, taskRet[a].err)) ELSE errs
    /\ taskPc' = [taskPc EXCEPT ![a] = "finished"]
    /\ UNCHANGED <<enabled, mainPc, loopIdx, taskRet, ctxErr, ret>>
    /\ UNCHANGED notScrape

\* the goroutine's critical section under mu, then the deferred wg.Done()
TaskAccumulate(a) ==
    /\ taskPc[a] = "returned"
    /\ IF taskRet[a].err # NoError
       THEN /\ errs' = Append(errs, WrapScraperError(a, taskRet[a].err))
            /\ UNCHANGED results
       ELSE /\ results' = results \o taskRet[a].reviews
            /\ UNCHANGED errs
    /\ taskPc' = [taskPc EXCEPT ![a] = "finished"]
    /\ UNCHANGED <<enabled, mainPc, loopIdx, taskRet, ctxErr, ret>>
    /\ UNCHANGED notScrape

\* wg.Wait() returns and ScrapeAll returns; the deferred cancel() runs
ScrapeAllReturns ==
    /\ mainPc = "wait"
    /\ WaitUnblocked
    /\ ret' = ScrapeAllResult(results, errs)
    /\ mainPc' = "done"
    /\ ctxErr' = IF ctxErr = "nil" THEN "canceled" ELSE ctxErr
    /\ UNCHANGED <<enabled, loopIdx, taskPc, taskRet, results, errs>>
    /\ UNCHANGED notScrape

\* the 10 minute timeout of context.WithTimeout elapses during the call
DeadlineElapses ==
    /\ mainPc # "done"
    /\ ctxErr = "nil"
    /\ ctxErr' = "deadline"
    /\ UNCHANGED <<enabled, mainPc, loopIdx, taskPc, taskRet, results, errs, ret>>
    /\ UNCHANGED notScrape

\* the caller's context is cancelled during the call
CallerCancels ==
    /\ mainPc # "done"
    /\ ctxErr = "nil"
    /\ ctxErr' = "canceled"
    /\ UNCHANGED <<enabled, mainPc, loopIdx, taskPc, taskRet, results, errs, ret>>
    /\ UNCHANGED notScrape

NextScrape ==
    \/ ScrapeAllLoop
    \/ \E a \in Adapters : TaskScrapeReturns(a)
    \/ \E a \in Adapters : TaskAccumulate(a)
    \/ ScrapeAllReturns
    \/ DeadlineElapses
    \/ CallerCancels

SpecScrape == InitScrape /\ [][NextScrape]_vars

(***************************************************************************)
(* Properties of the scrape orchestrator.                                  *)
(***************************************************************************)
AllReviewIds == UNION {ReviewIds(a) : a \in Adapters}

\* the adapters whose goroutine ran to its end
Finished == {a \in Adapters : taskPc[a] = "finished"}

Succeeded == {a \in Finished : taskRet[a].err = NoError}

Failed == {a \in Finished : taskRet[a].err # NoError}

RECURSIVE CountIn(_, _)
\* occurrences of id in the lists the adapters of S returned
CountIn(S, id) ==
    IF S = {} THEN 0
    ELSE LET a == CHOOSE x \in S : TRUE
         IN  Count(taskRet[a].reviews, id) + CountIn(S \ {a}, id)

\* rs is, as a multiset, the union of what the adapters of S returned
IsUnionOf(rs, S) == \A id \in AllReviewIds : Count(rs, id) = CountIn(S, id)

UnionIsEmpty(S) == \A a \in S : taskRet[a].reviews = <<>>

\* the message m names adapter a together with the error a's Scrape returned
Mentions(m, a) ==
    \E i \in 1..Len(m) : m[i] = [name |-> Name(a), msg |-> taskRet[a].err]

C2_AllFailGivesCombinedError ==
    (mainPc = "done" /\ Finished # {} /\ Succeeded = {})
        => /\ ret.reviews = <<>>
           /\ ret.err # <<>>
           /\ Len(ret.err) = Cardinality(Failed)
           /\ \A a \in Failed : Mentions(ret.err, a)

\* both full adapters failed, G2's goroutine ending before Twitter's
C2_Witness ==
    /\ mainPc = "done"
    /\ Failed = {"Twitter", "G2"}
    /\ Succeeded = {}
    /\ Len(ret.err) = 2
    /\ ret.err[1].name = "G2"
    /\ ret.err[2].name = "Twitter"

\* C7 as stated: ScrapeAll returns when every launched task has completed or
\* when the shared deadline elapses (or the caller cancels), whichever comes
\* first: once the context is done, its return does not wait for a task.
C7_ReturnsAtDeadline ==
    (mainPc = "wait" /\ (WgCount = 0 \/ ctxErr # "nil")) => ENABLED ScrapeAllReturns

\* C7 amended: ScrapeAll returns exactly when every launched task has
\* completed; the deadline or cancellation is only handed to the adapters, and
\* ScrapeAll keeps blocking on a task that is still running after it.
C7_ReturnsWhenAllTasksComplete ==
    /\ mainPc = "wait" => (ENABLED ScrapeAllReturns <=> WgCount = 0)
    /\ mainPc = "done" => \A a \in Adapters : taskPc[a] \in {"none", "finished"}

\* the deadline elapsed while a task was running, the task then returned the
\* context's error, and only then ScrapeAll returned
C7_Witness ==
    /\ mainPc = "done"
    /\ ctxErr = "deadline"
    /\ \E a \in Finished : taskRet[a].err = "context done"

\* C9: ScrapeAll never calls Scrape on an adapter whose IsEnabled() is false:
\* no task is launched for it, and nothing of it is in the accumulators or in
\* the result.
C9_DisabledNeverScraped ==
    \A a \in Adapters :
        ~IsEnabled(a) =>
            /\ taskPc[a] = "none"
            /\ taskRet[a] = NoRet
            /\ \A i \in 1..Len(errs) : \A j \in 1..Len(errs[i]) : errs[i][j].name # Name(a)
            /\ Range(results) \cap ReviewIds(a) = {}
            /\ Range(ret.reviews) \cap ReviewIds(a) = {}

\* a call that skipped a disabled adapter and ran an enabled one to its end
C9_Witness ==
    /\ mainPc = "done"
    /\ ~IsEnabled("Twitter")
    /\ IsEnabled("G2")
    /\ taskPc["G2"] = "finished"
    /\ taskPc["Twitter"] = "none"

(***************************************************************************)
(* The routing engine.                                                     *)
(***************************************************************************)
\* m with key k set to v (a Go map assignment m[k] = v)
MapPut(m, k, v) == [x \in DOMAIN m \cup {k} |-> IF x = k THEN v ELSE m[x]]

Dept(i, n, c, cs) == [id |-> i, name |-> n, contactInfo |-> c, categories |-> cs]

\* the departments New defines
NewDepartments ==
    {Dept("engineering", "Infoblox Engineering", "engineering@infoblox.com",
          <<"product_issue", "performance", "upgrade_issue">>),
     Dept("security", "Security Team", "security@infoblox.com", <<"security">>),
     Dept("product", "Product Management", "product@infoblox.com", <<"feature_request">>),
     Dept("design", "UX Design", "design@infoblox.com", <<"ui_ux">>),
     Dept("finance", "Customer Success & Licensing", "licensing@infoblox.com",
          <<"billing_licensing">>),
     Dept("support", "Technical Support", "support@infoblox.com",
          <<"technical_support", "general_complaint">>),
     Dept("documentation", "Documentation Team", "docs@infoblox.com", <<"documentation">>),
     Dept("professional_services", "Professional Services", "services@infoblox.com",
          <<"deployment">>),
     Dept("cloud_team", "BloxOne Cloud Team", "cloud@infoblox.com", <<"cloud_integration">>),
     Dept("automation_team", "Network Automation Team", "automation@infoblox.com",
          <<"automation">>)}

\* the department table New builds: each department under its own ID
NewDepartmentTable ==
    [i \in {d.id : d \in NewDepartments} |-> CHOOSE d \in NewDepartments : d.id = i]

Mapping(c, d) == [category |-> c, department |-> d]

\* the mappings New uses when the configuration gives none
DefaultMappings ==
    <<Mapping("product_issue", "engineering"), Mapping("technical_support", "support"),
      Mapping("performance", "engineering"), Mapping("security", "security"),
      Mapping("feature_request", "product"), Mapping("ui_ux", "design"),
      Mapping("billing_licensing", "finance"), Mapping("documentation", "documentation"),
      Mapping("deployment", "professional_services"),
      Mapping("cloud_integration", "cloud_team"), Mapping("automation", "automation_team"),
      Mapping("upgrade_issue", "engineering"), Mapping("general_complaint", "support")>>

RECURSIVE MappingCacheOf(_)
\* `for _, mapping := range cfg.Mappings { mappingCache[mapping.Category] = mapping.Department }`
MappingCacheOf(ms) ==
    IF Len(ms) = 0 THEN <<>>
    ELSE MapPut(MappingCacheOf(SubSeq(ms, 1, Len(ms) - 1)),
                ms[Len(ms)].category, ms[Len(ms)].department)

\* New: the mapping cache of a configuration
NewMappingCache(cfgMappings) ==
    MappingCacheOf(IF Len(cfgMappings) = 0 THEN DefaultMappings ELSE cfgMappings)

\* the hard-coded department Route ends with
UltimateFallback ==
    Dept("support", "Customer Support", "support@company.com", <<"general_complaint">>)

\* ---- inputs ---------------------------------------------------------------
\* router configurations: no mappings (the defaults apply), a mapping to a
\* department that exists, mappings to a department that does not
ConfigMappings ==
    {<<>>,
     <<Mapping("security", "security")>>,
     <<Mapping("security", "legal"), Mapping("performance", "engineering")>>}

ConfigDefaults == {"", "product", "nowhere"}

\* intent categories and score-map keys passed to Route
RouteCategories == {"security", "performance", "network_services"}

ScoreValues == {1, 2}

\* every CategoryScores map over a subset of RouteCategories
ScoreMaps == UNION {[cs -> ScoreValues] : cs \in SUBSET RouteCategories}

RouteInputs ==
    {[intentCategory |-> c, categoryScores |-> m] : c \in RouteCategories, m \in ScoreMaps}

\* departments passed to AddDepartment
AddInputs ==
    {Dept(i, "Added", "added@company.com", cs) :
        i \in {"", "ops"},
        cs \in {<<>>, <<"security">>, <<"network_services", "performance">>}}

\* (category, departmentID) pairs passed to UpdateMapping
UpdateInputs ==
    {<<c, d>> : c \in {"security", "network_services"}, d \in {"ops", "engineering"}}

RouteCallers == {"r1"}

MutatingCallers == {"m1"}

NoDepartment == Dept("none", "none", "none", <<>>)

NoAnalysis == [intentCategory |-> "none", categoryScores |-> <<>>]

\* ---- Route ---------------------------------------------------------------
\* the scores slice left in the order the map was ranged over
UnsortedOrders(scores) ==
    {o \in SeqsUpTo(DOMAIN scores, Cardinality(DOMAIN scores)) :
        /\ Len(o) = Cardinality(DOMAIN scores)
        /\ Range(o) = DOMAIN scores}

\* the orders in which the scores slice can stand after sort.Slice: every
\* arrangement of the map's entries with non-increasing scores (map iteration
\* order is random and the sort is not stable)
SortedOrders(scores) ==
    {o \in SeqsUpTo(DOMAIN scores, Cardinality(DOMAIN scores)) :
        /\ Len(o) = Cardinality(DOMAIN scores)
        /\ Range(o) = DOMAIN scores
        /\ \A i \in 1..(Len(o) - 1) : scores[o[i]] >= scores[o[i + 1]]}

\* the category has a mapping to a department of the table
MapsToDepartment(c) == c \in DOMAIN mappingCache /\ mappingCache[c] \in DOMAIN departments

RECURSIVE FirstMapped(_)
\* the loop over the sorted scores: the first category with a department
FirstMapped(o) ==
    IF Len(o) = 0 THEN "none"
    ELSE IF MapsToDepartment(o[1]) THEN o[1]
    ELSE FirstMapped(Tail(o))

\* a chain that goes to "support" without looking at the configured default
DefaultChainWithoutDefault ==
    IF "support" \in DOMAIN departments THEN departments["support"]
    ELSE UltimateFallback

\* lines 167-183: the default department, then "support", then the hard-coded one
DefaultChain ==
    IF cfgDefault \in DOMAIN departments THEN departments[cfgDefault]
    ELSE IF "support" \in DOMAIN departments THEN departments["support"]
    ELSE UltimateFallback

\* lines 142-183: what Route returns after the direct lookup missed, with the
\* scores slice sorted into order o
FallbackResult(o) ==
    IF FirstMapped(o) # "none" THEN departments[mappingCache[FirstMapped(o)]]
    ELSE DefaultChain

\* a read lock that does not wait for the writer
CanRLockAlways == TRUE

\* sync.RWMutex: RLock succeeds while no writer holds the lock
CanRLock == rwWriter = "none"

\* sync.RWMutex: Lock succeeds while nobody holds the lock
CanLock == rwWriter = "none" /\ rwReaders = {}

InitRouter ==
    /\ cfgDefault \in ConfigDefaults
    /\ departments = NewDepartmentTable
    /\ \E ms \in ConfigMappings : mappingCache = NewMappingCache(ms)
    /\ rwWriter = "none"
    /\ rwReaders = {}
    /\ routePc = [t \in RouteCallers |-> "idle"]
    /\ routeArg = [t \in RouteCallers |-> NoAnalysis]
    /\ routeDeptId = [t \in RouteCallers |-> "none"]
    /\ routeRet = [t \in RouteCallers |-> NoDepartment]
    /\ mutPc = [t \in MutatingCallers |-> "idle"]
    /\ mutArg = [t \in MutatingCallers |-> <<>>]
    /\ mutations = 0
    /\ ScrapeOff
    /\ AnalyzerOff
    /\ AdapterOff
    /\ PipelineOff
    /\ ItemOff

\* Route is called: r.mu.RLock()
RouteRLock(t) ==
    /\ routePc[t] = "idle"
    /\ CanRLock
    /\ \E a \in RouteInputs : routeArg' = [routeArg EXCEPT ![t] = a]
    /\ rwReaders' = rwReaders \cup {t}
    /\ routePc' = [routePc EXCEPT ![t] = "lookup"]
    /\ routeDeptId' = [routeDeptId EXCEPT ![t] = "none"]
    /\ routeRet' = [routeRet EXCEPT ![t] = NoDepartment]
    /\ UNCHANGED <<cfgDefault, departments, mappingCache, rwWriter, mutPc, mutArg, mutations>>
    /\ UNCHANGED notRouter

\* `if departmentID, exists := r.mappingCache[analysis.IntentCategory]; exists`
RouteDirectLookup(t) ==
    /\ routePc[t] = "lookup"
    /\ IF routeArg[t].intentCategory \in DOMAIN mappingCache
       THEN /\ routeDeptId' = [routeDeptId EXCEPT ![t] = mappingCache[routeArg[t].intentCategory]]
            /\ routePc' = [routePc EXCEPT ![t] = "dept"]
       ELSE /\ routePc' = [routePc EXCEPT ![t] = "fallback"]
            /\ UNCHANGED routeDeptId
    /\ UNCHANGED <<cfgDefault, departments, mappingCache, rwWriter, rwReaders, routeArg,
                   routeRet, mutPc, mutArg, mutations>>
    /\ UNCHANGED notRouter

RouteDirectDepartmentSkipped(t) ==
    /\ routePc[t] = "dept"
    /\ routePc' = [routePc EXCEPT ![t] = "fallback"]
    /\ UNCHANGED <<cfgDefault, departments, mappingCache, rwWriter, rwReaders, routeArg,
                   routeDeptId, routeRet, mutPc, mutArg, mutations>>
    /\ UNCHANGED notRouter

\* `if dept, exists := r.departments[departmentID]; exists { return dept }`
RouteDirectDepartment(t) ==
    /\ routePc[t] = "dept"
    /\ IF routeDeptId[t] \in DOMAIN departments
       THEN /\ routeRet' = [routeRet EXCEPT ![t] = departments[routeDeptId[t]]]
            /\ routePc' = [routePc EXCEPT ![t] = "done"]
            /\ rwReaders' = rwReaders \ {t}
       ELSE /\ routePc' = [routePc EXCEPT ![t] = "fallback"]
            /\ UNCHANGED <<routeRet, rwReaders>>
    /\ UNCHANGED <<cfgDefault, departments, mappingCache, rwWriter, routeArg, routeDeptId,
                   mutPc, mutArg, mutations>>
    /\ UNCHANGED notRouter

\* the ranked fallback and the default chain; the deferred RUnlock
RouteFallback(t) ==
    /\ routePc[t] = "fallback"
    /\ \E o \in SortedOrders(routeArg[t].categoryScores) :
          routeRet' = [routeRet EXCEPT ![t] = FallbackResult(o)]
    /\ routePc' = [routePc EXCEPT ![t] = "done"]
    /\ rwReaders' = rwReaders \ {t}
    /\ UNCHANGED <<cfgDefault, departments, mappingCache, rwWriter, routeArg, routeDeptId,
                   mutPc, mutArg, mutations>>
    /\ UNCHANGED notRouter

\* the caller takes the department and may call Route again
RouteAgain(t) ==
    /\ routePc[t] = "done"
    /\ routePc' = [routePc EXCEPT ![t] = "idle"]
    /\ routeArg' = [routeArg EXCEPT ![t] = NoAnalysis]
    /\ routeDeptId' = [routeDeptId EXCEPT ![t] = "none"]
    /\ routeRet' = [routeRet EXCEPT ![t] = NoDepartment]
    /\ UNCHANGED <<cfgDefault, departments, mappingCache, rwWriter, rwReaders, mutPc, mutArg,
                   mutations>>
    /\ UNCHANGED notRouter

RECURSIVE PutCategories(_, _, _)
\* `for _, category := range department.Categories { r.mappingCache[category] = department.ID }`
PutCategories(m, cs, i) ==
    IF Len(cs) = 0 THEN m ELSE PutCategories(MapPut(m, cs[1], i), Tail(cs), i)

\* AddDepartment is called: r.mu.Lock(), then r.departments[department.ID] = department
AddDepartmentLock(t) ==
    /\ mutPc[t] = "idle"
    /\ mutations < MaxMutations
    /\ CanLock
    /\ \E d \in AddInputs :
          /\ mutArg' = [mutArg EXCEPT ![t] = d]
          /\ departments' = MapPut(departments, d.id, d)
    /\ rwWriter' = t
    /\ mutPc' = [mutPc EXCEPT ![t] = "addMap"]
    /\ mutations' = mutations + 1
    /\ UNCHANGED <<cfgDefault, mappingCache, rwReaders, routePc, routeArg, routeDeptId, routeRet>>
    /\ UNCHANGED notRouter

\* AddDepartment: the loop over the department's categories, then the deferred Unlock
AddDepartmentMappings(t) ==
    /\ mutPc[t] = "addMap"
    /\ mappingCache' = PutCategories(mappingCache, mutArg[t].categories, mutArg[t].id)
    /\ rwWriter' = "none"
    /\ mutPc' = [mutPc EXCEPT ![t] = "idle"]
    /\ mutArg' = [mutArg EXCEPT ![t] = <<>>]
    /\ UNCHANGED <<cfgDefault, departments, rwReaders, routePc, routeArg, routeDeptId,
                   routeRet, mutations>>
    /\ UNCHANGED notRouter

\* UpdateMapping(category, departmentID): Lock, the assignment, Unlock
UpdateMapping(t) ==
    /\ mutPc[t] = "idle"
    /\ mutations < MaxMutations
    /\ CanLock
    /\ \E u \in UpdateInputs : mappingCache' = MapPut(mappingCache, u[1], u[2])
    /\ mutations' = mutations + 1
    /\ UNCHANGED <<cfgDefault, departments, rwWriter, rwReaders, routePc, routeArg,
                   routeDeptId, routeRet, mutPc, mutArg>>
    /\ UNCHANGED notRouter

NextRouter ==
    \/ \E t \in RouteCallers : RouteRLock(t)
    \/ \E t \in RouteCallers : RouteDirectLookup(t)
    \/ \E t \in RouteCallers : RouteDirectDepartment(t)
    \/ \E t \in RouteCallers : RouteFallback(t)
    \/ \E t \in RouteCallers : RouteAgain(t)
    \/ \E t \in MutatingCallers : AddDepartmentLock(t)
    \/ \E t \in MutatingCallers : AddDepartmentMappings(t)
    \/ \E t \in MutatingCallers : UpdateMapping(t)

SpecRouter == InitRouter /\ [][NextRouter]_vars

(***************************************************************************)
(* Properties of the routing engine.                                       *)
(***************************************************************************)
\* the step in which caller t's Route call returns
RouteReturns(t) == routePc[t] # "done" /\ routePc'[t] = "done"

\* C3: after any sequence of AddDepartment and UpdateMapping calls and for any
\* configuration, the Department that Route returns has a non-empty identifier.
C3_RouteReturnsNonEmptyId ==
    \A t \in RouteCallers : routePc[t] = "done" => routeRet[t].id # ""

\* C10: whenever the intent category has an entry in the mapping table and the
\* mapped identifier exists in the department table, Route returns exactly that
\* department, whatever CategoryScores and the default department are.
C10_DirectLookupWins ==
    [][\A t \in RouteCallers :
          (RouteReturns(t) /\ MapsToDepartment(routeArg[t].intentCategory))
              => routeRet'[t] = departments[mappingCache[routeArg[t].intentCategory]]]_vars

\* Route returned the department mapped from the intent category although a
\* higher-ranked score entry and the default department point elsewhere
C10_Witness ==
    /\ routePc["r1"] = "done"
    /\ routeArg["r1"].intentCategory = "security"
    /\ "performance" \in DOMAIN routeArg["r1"].categoryScores
    /\ MapsToDepartment("security")
    /\ MapsToDepartment("performance")
    /\ mappingCache["performance"] # mappingCache["security"]
    /\ cfgDefault = "product"
    /\ routeRet["r1"] = departments[mappingCache["security"]]
    /\ routeRet["r1"].id = "ops"

\* the categories of the scores map that have a mapping to an existing department
ValidCategories(scores) == {c \in DOMAIN scores : MapsToDepartment(c)}

\* the step in which caller t's Route call returns from the ranked fallback
RouteFallbackReturns(t) == routePc[t] = "fallback" /\ routePc'[t] = "done"

\* C11: when the direct lookup yields no existing department and some
\* category of CategoryScores maps to an existing department, Route returns
\* the department of a category whose score is highest among those with such
\* a mapping
C11_HighestMappedCategoryWins ==
    [][\A t \in RouteCallers :
        LET scores == routeArg[t].categoryScores
            valid == ValidCategories(scores)
        IN  (RouteFallbackReturns(t) /\ valid # {})
                => \E c \in valid :
                      /\ \A other \in valid : scores[other] <= scores[c]
                      /\ routeRet'[t] = departments[mappingCache[c]]]_vars

\* a Route call whose intent category has no department has returned the
\* department of its highest-scored category, passing over a lower-scored
\* category that maps to another department; the tables are those of New
C11_Witness ==
    \E t \in RouteCallers :
        LET scores == routeArg[t].categoryScores
        IN  /\ routePc[t] = "done"
            /\ mutations = 0
            /\ ~MapsToDepartment(routeArg[t].intentCategory)
            /\ \E c, low \in ValidCategories(scores) :
                  /\ scores[low] < scores[c]
                  /\ \A other \in ValidCategories(scores) : scores[other] <= scores[c]
                  /\ routeRet[t] = departments[mappingCache[c]]
                  /\ departments[mappingCache[low]] # routeRet[t]

\* C12: when neither the intent category nor any category of CategoryScores
\* maps to an existing department, Route returns the configured default
\* department if the department table has that identifier, and a department
\* with identifier "support" otherwise
C12_DefaultThenSupport ==
    [][\A t \in RouteCallers :
        (/\ RouteFallbackReturns(t)
         /\ ~MapsToDepartment(routeArg[t].intentCategory)
         /\ ValidCategories(routeArg[t].categoryScores) = {})
            => IF cfgDefault \in DOMAIN departments
               THEN routeRet'[t] = departments[cfgDefault]
               ELSE routeRet'[t].id = "support"]_vars

\* a Route call that found no department for the intent category nor for any
\* scored category has returned the configured default department, which is
\* not "support"; the tables are those of New
C12_Witness ==
    \E t \in RouteCallers :
        /\ routePc[t] = "done"
        /\ mutations = 0
        /\ ~MapsToDepartment(routeArg[t].intentCategory)
        /\ DOMAIN routeArg[t].categoryScores # {}
        /\ ValidCategories(routeArg[t].categoryScores) = {}
        /\ cfgDefault \in DOMAIN departments
        /\ cfgDefault # "support"
        /\ routeRet[t] = departments[cfgDefault]

\* caller t's Route call is between its RLock and its return
RouteReading(t) == routePc[t] \in {"lookup", "dept", "fallback"}

\* what Route returns for an analysis when it is evaluated in one piece on
\* the tables of the current state
RouteResults(analysis) ==
    IF MapsToDepartment(analysis.intentCategory)
    THEN {departments[mappingCache[analysis.intentCategory]]}
    ELSE {FallbackResult(o) : o \in SortedOrders(analysis.categoryScores)}

\* C13: with Route, AddDepartment and UpdateMapping running concurrently, the
\* tables do not change while a Route call reads them and no AddDepartment is
\* half applied then, and what a Route call returns is what Route yields on
\* the tables as they stand, every update that has returned included
C13_RouteReadsOneSnapshot ==
    [][\A t \in RouteCallers :
        /\ RouteReading(t) =>
              /\ \A m \in MutatingCallers : mutPc[m] = "idle"
              /\ departments' = departments
              /\ mappingCache' = mappingCache
        /\ RouteReturns(t) => routeRet'[t] \in RouteResults(routeArg[t])]_vars

\* a Route call made after AddDepartment returned has been given the added
\* department
C13_Witness ==
    \E t \in RouteCallers :
        /\ routePc[t] = "done"
        /\ \A m \in MutatingCallers : mutPc[m] = "idle"
        /\ mutations > 0
        /\ routeRet[t].id = "ops"
        /\ routeRet[t].name = "Added"
        /\ "ops" \in DOMAIN departments
        /\ routeRet[t] = departments["ops"]

(***************************************************************************)
(* The classification engine.                                              *)
(***************************************************************************)
\* float64 scores are held as integers counting 1/Unit; every quotient the
\* inputs below produce is exact in this unit
Unit == 3000

Min(a, b) == IF a < b THEN a ELSE b
Max(a, b) == IF a > b THEN a ELSE b

\* a review text, given by what analyzeLocal reads from it: the occurrences of
\* the positive and negative words, of "!" and of runs of three capitals, the
\* configured keywords and product names it contains, and the entities found
ReviewText(t, p, n, e, c, k, es) ==
    [text |-> t, positiveCount |-> p, negativeCount |-> n, exclamationCount |-> e,
     capsCount |-> c, keywords |-> k, entities |-> es]

Entity(t, pos) == [text |-> t, type |-> "PRODUCT", position |-> pos]

CrashText ==
    ReviewText("Constant crashes and terrible DHCP support", 0, 2, 0, 1,
               {"crash", "dhcp"}, {Entity("dhcp", 30)})

BestText ==
    ReviewText("This is the BEST DNS tool ever!!!", 1, 0, 3, 2,
               {"dns"}, {Entity("dns", 17)})

NilRating == [isNil |-> TRUE, tenths |-> 0]
\* a *float64 rating, in tenths of a star
Rating(t) == [isNil |-> FALSE, tenths |-> t]

Review(i, c, r) == [id |-> i, content |-> c, rating |-> r]

\* the reviews passed to Analyze: two of them have the same content
AnalyzeInputs ==
    {Review("twitter-1", CrashText, NilRating),
     Review("g2-p-1-0", CrashText, Rating(40)),
     Review("g2-p-1-1", BestText, Rating(50))}

AnalyzeCallers == {"a1", "a2"}

\* fmt.Sprintf("%x", review.Content): the hex digits of the content's bytes,
\* one key per content
CacheKey(review) == <<"%x", review.content.text>>

AnalysisResult(i, s, n, r, cat, conf, k, es, cs) ==
    [reviewID |-> i, sentimentScore |-> s, isNegative |-> n, isRelevant |-> r,
     intentCategory |-> cat, confidence |-> conf, keywords |-> k, entities |-> es,
     categoryScores |-> cs]

\* models.AnalysisResult{}
EmptyResult == AnalysisResult("", 0, FALSE, FALSE, "", 0, {}, {}, <<>>)

\* a.categoryMap
CategoryMap ==
    [k \in {"bug", "crash", "error", "broken", "freeze"} |-> "bug_report"] @@
    [k \in {"slow", "laggy", "hang"} |-> "performance"] @@
    [k \in {"feature", "missing", "wish"} |-> "feature_request"] @@
    [k \in {"delivery", "shipping"} |-> "logistics"] @@
    [k \in {"payment", "charge", "refund"} |-> "billing"] @@
    [k \in {"support", "service", "rude"} |-> "customer_service"] @@
    [k \in {"interface", "confusing", "difficult"} |-> "ui_ux"] @@
    [k \in {"dns", "dhcp", "ipam", "ddi"} |-> "network_services"] @@
    [k \in {"nios"} |-> "nios_platform"] @@
    [k \in {"bloxone"} |-> "bloxone_platform"] @@
    [k \in {"threat", "secure", "protection", "ddos"} |-> "security"] @@
    [k \in {"cloud"} |-> "cloud_services"] @@
    [k \in {"automation", "netmri"} |-> "network_automation"]

\* positiveCount - negativeCount over their sum, 0 when no word was found
LexicalScore(c) ==
    LET totalWords == c.positiveCount + c.negativeCount
    IN  IF totalWords > 0
        THEN ((c.positiveCount - c.negativeCount) * Unit) \div totalWords
        ELSE 0

\* sentimentScore *= 1.2, clamped to [-1, 1], when the text shouts
Amplified(score, c) ==
    IF c.exclamationCount > 2 \/ c.capsCount > 2
    THEN IF score < 0 THEN Max((score * 12) \div 10, -Unit)
         ELSE IF score > 0 THEN Min((score * 12) \div 10, Unit)
         ELSE score
    ELSE score

\* categoryScores[category]++ for every keyword a.categoryMap knows
CategoryScores(keywords) ==
    LET known == keywords \cap DOMAIN CategoryMap
    IN  [cat \in {CategoryMap[k] : k \in known} |->
            Cardinality({k \in known : CategoryMap[k] = cat})]

\* the categories the range loop over categoryScores can end with: it keeps
\* the first category it meets among those with the highest score, and the
\* order in which a Go map is ranged over is not fixed
TopCategories(scores) ==
    IF DOMAIN scores = {}
    THEN {"general_complaint"}
    ELSE {cat \in DOMAIN scores : \A other \in DOMAIN scores : scores[other] <= scores[cat]}

\* a confidence without the floor of 0.3
LocalConfidenceUnfloored(keywords) ==
    LET n == Cardinality(keywords)
    IN  IF n > 0 THEN Min((n * Unit) \div 10, Unit) ELSE Unit \div 2

LocalConfidence(keywords) ==
    LET n == Cardinality(keywords)
    IN  IF n > 0
        THEN Max(Min((n * Unit) \div 10, Unit), (3 * Unit) \div 10)
        ELSE Unit \div 2

\* sentimentScore*0.6 + ((rating - 3) / 2)*0.4 when the review has a rating
BlendRating(score, rating) ==
    IF rating.isNil
    THEN score
    ELSE (score * 6) \div 10 + ((rating.tenths - 30) * Unit * 4) \div 200

\* the results analyzeLocal can return for a review; Keywords and Entities are
\* held as sets
AnalyzeLocal(review) ==
    LET c == review.content
        sentimentScore == BlendRating(Amplified(LexicalScore(c), c), review.rating)
        categoryScores == CategoryScores(c.keywords)
    IN  {AnalysisResult("", sentimentScore, sentimentScore < 0, c.keywords # {},
                        topCategory, LocalConfidence(c.keywords), c.keywords,
                        c.entities, categoryScores) :
            topCategory \in TopCategories(categoryScores)}

\* what json.Unmarshal of the remote model's answer can yield: any field may
\* be set, the flags and the review id included
RemoteResults ==
    {AnalysisResult("spoofed", sc[1], f, f, "security", sc[2], {"dns"}, {}, <<>>) :
        sc \in {<<-1200, 900>>, <<1500, 600>>}, f \in BOOLEAN}

NoErr == "nil"

StrategyOutcome(r, e) == [result |-> r, err |-> e]

\* the failures of a request to the remote model: transport error, status
\* other than 200, undecodable body, no choice, undecodable answer
OpenAIErrors ==
    {"error sending request to OpenAI", "OpenAI API returned status code 500",
     "error parsing OpenAI response", "no choices returned from OpenAI",
     "error unmarshaling analysis result"}

AnalyzeWithOpenAI(cfg, review) ==
    IF cfg.apiKey = ""
    THEN {StrategyOutcome(EmptyResult, "OpenAI API key is not configured")}
    ELSE {StrategyOutcome(EmptyResult, e) : e \in OpenAIErrors}
         \cup {StrategyOutcome(r, NoErr) : r \in RemoteResults}

\* a switch whose default case rejects the mode
StrategyRejectingUnknown(cfg, review) ==
    CASE cfg.mode = "openai" -> AnalyzeWithOpenAI(cfg, review)
      [] cfg.mode \in {"google", "aws", "azure"} ->
            {StrategyOutcome(EmptyResult, "analysis not implemented")}
      [] cfg.mode = "local" -> {StrategyOutcome(r, NoErr) : r \in AnalyzeLocal(review)}
      [] OTHER -> {StrategyOutcome(EmptyResult, "unknown analyzer mode")}

\* the switch on a.config.Mode
Strategy(cfg, review) ==
    CASE cfg.mode = "openai" -> AnalyzeWithOpenAI(cfg, review)
      [] cfg.mode = "google" ->
            {StrategyOutcome(EmptyResult, "Google Cloud analysis not implemented")}
      [] cfg.mode = "aws" ->
            {StrategyOutcome(EmptyResult, "AWS Comprehend analysis not implemented")}
      [] cfg.mode = "azure" ->
            {StrategyOutcome(EmptyResult, "Azure Text Analytics analysis not implemented")}
      [] cfg.mode = "local" -> {StrategyOutcome(r, NoErr) : r \in AnalyzeLocal(review)}
      [] OTHER -> {StrategyOutcome(r, NoErr) : r \in AnalyzeLocal(review)}

\* post-processing that leaves the strategy's review id in place
PostProcessWithoutId(cfg, review, result) ==
    [result EXCEPT !.isNegative = result.sentimentScore <= cfg.negativeThreshold,
                   !.isRelevant = result.confidence >= cfg.relevanceThreshold]

\* post-processing that leaves the strategy's flags in place
PostProcessKeepingFlags(cfg, review, result) ==
    [result EXCEPT !.reviewID = review.id]

\* result.ReviewID, result.IsNegative and result.IsRelevant as Analyze sets
\* them on the strategy's result
PostProcess(cfg, review, result) ==
    [result EXCEPT !.reviewID = review.id,
                   !.isNegative = result.sentimentScore <= cfg.negativeThreshold,
                   !.isRelevant = result.confidence >= cfg.relevanceThreshold]

AnalyzerModes == {"local", "openai", "google", "aws", "azure", "", "bert"}

AnalyzerConfigs ==
    {[mode |-> m, apiKey |-> k, negativeThreshold |-> th[1], relevanceThreshold |-> th[2]] :
        m \in AnalyzerModes, k \in {"", "sk-test"},
        th \in {<<-900, 1500>>, <<-1200, 900>>}}

NoAnalyzeRet == [result |-> EmptyResult, err |-> "unset"]

InitAnalyzer ==
    /\ anaCfg \in AnalyzerConfigs
    /\ cache = <<>>
    /\ anaPc = [t \in AnalyzeCallers |-> "idle"]
    /\ anaReview = [t \in AnalyzeCallers |-> Review("", BestText, NilRating)]
    /\ anaResult = [t \in AnalyzeCallers |-> EmptyResult]
    /\ anaErr = [t \in AnalyzeCallers |-> NoErr]
    /\ anaRet = [t \in AnalyzeCallers |-> NoAnalyzeRet]
    /\ anaInvoked = [t \in AnalyzeCallers |-> FALSE]
    /\ anaPrior = [t \in AnalyzeCallers |-> {}]
    /\ firstResult = <<>>
    /\ failedKeys = {}
    /\ anaRetry = [t \in AnalyzeCallers |-> FALSE]
    /\ ScrapeOff
    /\ RouterOff
    /\ AdapterOff
    /\ PipelineOff
    /\ ItemOff

\* the first result returned for each key, once the call of review r returns result
RecordFirst(review, result) ==
    IF CacheKey(review) \in DOMAIN firstResult
    THEN firstResult
    ELSE MapPut(firstResult, CacheKey(review), result)

\* Analyze is called and looks the cache key up under the read lock; on a hit
\* it returns the cached result
AnalyzeLookup(t) ==
    /\ anaPc[t] = "idle"
    /\ \E review \in AnalyzeInputs :
        LET cacheKey == CacheKey(review)
        IN  /\ anaReview' = [anaReview EXCEPT ![t] = review]
            /\ anaPrior' = [anaPrior EXCEPT ![t] = DOMAIN firstResult]
            /\ anaInvoked' = [anaInvoked EXCEPT ![t] = FALSE]
            /\ anaRetry' = [anaRetry EXCEPT ![t] = cacheKey \in failedKeys]
            /\ IF cacheKey \in DOMAIN cache
               THEN /\ anaRet' = [anaRet EXCEPT ![t] = [result |-> cache[cacheKey], err |-> NoErr]]
                    /\ anaPc' = [anaPc EXCEPT ![t] = "done"]
                    /\ firstResult' = RecordFirst(review, cache[cacheKey])
               ELSE /\ anaPc' = [anaPc EXCEPT ![t] = "strategy"]
                    /\ UNCHANGED <<anaRet, firstResult>>
    /\ UNCHANGED <<anaCfg, cache, anaResult, anaErr, failedKeys>>
    /\ UNCHANGED notAnalyzer

\* a strategy call whose error is dropped: the empty result goes on to be stored
AnalyzeStrategyDefaulting(t) ==
    /\ anaPc[t] = "strategy"
    /\ \E out \in Strategy(anaCfg, anaReview[t]) :
        /\ anaResult' = [anaResult EXCEPT ![t] = out.result]
        /\ anaErr' = [anaErr EXCEPT ![t] = out.err]
    /\ anaPc' = [anaPc EXCEPT ![t] = "store"]
    /\ anaInvoked' = [anaInvoked EXCEPT ![t] = TRUE]
    /\ UNCHANGED <<anaCfg, cache, anaReview, anaRet, anaPrior, firstResult, failedKeys,
                   anaRetry>>
    /\ UNCHANGED notAnalyzer

\* the configured strategy returns; on an error Analyze returns the empty
\* result and the error
AnalyzeStrategy(t) ==
    /\ anaPc[t] = "strategy"
    /\ \E out \in Strategy(anaCfg, anaReview[t]) :
        /\ anaResult' = [anaResult EXCEPT ![t] = out.result]
        /\ anaErr' = [anaErr EXCEPT ![t] = out.err]
        /\ IF out.err # NoErr
           THEN /\ anaRet' = [anaRet EXCEPT ![t] = [result |-> EmptyResult, err |-> out.err]]
                /\ anaPc' = [anaPc EXCEPT ![t] = "done"]
                /\ failedKeys' = failedKeys \cup {CacheKey(anaReview[t])}
           ELSE /\ anaPc' = [anaPc EXCEPT ![t] = "store"]
                /\ UNCHANGED <<anaRet, failedKeys>>
    /\ anaInvoked' = [anaInvoked EXCEPT ![t] = TRUE]
    /\ UNCHANGED <<anaCfg, cache, anaReview, anaPrior, firstResult, anaRetry>>
    /\ UNCHANGED notAnalyzer

\* Analyze sets the id and the flags, stores the result under the write lock
\* and returns it
AnalyzeStore(t) ==
    /\ anaPc[t] = "store"
    /\ LET result == PostProcess(anaCfg, anaReview[t], anaResult[t])
       IN  /\ cache' = MapPut(cache, CacheKey(anaReview[t]), result)
           /\ anaRet' = [anaRet EXCEPT ![t] = [result |-> result, err |-> NoErr]]
           /\ firstResult' = RecordFirst(anaReview[t], result)
    /\ anaPc' = [anaPc EXCEPT ![t] = "done"]
    /\ UNCHANGED <<anaCfg, anaReview, anaResult, anaErr, anaInvoked, anaPrior, failedKeys,
                   anaRetry>>
    /\ UNCHANGED notAnalyzer

\* the caller takes the returned value and may call again
AnalyzeReturned(t) ==
    /\ anaPc[t] = "done"
    /\ anaPc' = [anaPc EXCEPT ![t] = "idle"]
    /\ anaRet' = [anaRet EXCEPT ![t] = NoAnalyzeRet]
    /\ anaResult' = [anaResult EXCEPT ![t] = EmptyResult]
    /\ anaErr' = [anaErr EXCEPT ![t] = NoErr]
    /\ UNCHANGED <<anaCfg, cache, anaReview, anaInvoked, anaPrior, firstResult, failedKeys,
                   anaRetry>>
    /\ UNCHANGED notAnalyzer

NextAnalyzer ==
    \/ \E t \in AnalyzeCallers : AnalyzeLookup(t)
    \/ \E t \in AnalyzeCallers : AnalyzeStrategy(t)
    \/ \E t \in AnalyzeCallers : AnalyzeStore(t)
    \/ \E t \in AnalyzeCallers : AnalyzeReturned(t)

SpecAnalyzer == InitAnalyzer /\ [][NextAnalyzer]_vars

(***************************************************************************)
(* Properties of the classification engine.                                *)
(***************************************************************************)
\* caller t's Analyze call has returned a result and no error
AnalyzeSucceeded(t) == anaPc[t] = "done" /\ anaRet[t].err = NoErr

\* C4: once an Analyze call has returned a result for a review, every later
\* call for a review with the same content returns that first result, equal in
\* every field, and does not invoke the strategy
C4_LaterCallsReturnFirstResult ==
    \A t \in AnalyzeCallers :
        (AnalyzeSucceeded(t) /\ CacheKey(anaReview[t]) \in anaPrior[t])
            => /\ anaRet[t].result = firstResult[CacheKey(anaReview[t])]
               /\ ~anaInvoked[t]

\* C5: the result a successful Analyze(review) returns, computed or cached,
\* carries the id of the review passed in
C5_ResultCarriesReviewId ==
    \A t \in AnalyzeCallers :
        AnalyzeSucceeded(t) => anaRet[t].result.reviewID = anaReview[t].id

\* the ids of the reviews that have the content of the given review
IdsWithContentOf(review) ==
    {r.id : r \in {x \in AnalyzeInputs : CacheKey(x) = CacheKey(review)}}

\* C5 (amended): a result computed by a successful Analyze(review) call
\* carries the id of the review passed in; a result served from the cache
\* carries the id of a review with the same content, the one whose call
\* stored the entry
C5_FreshResultCarriesReviewId ==
    \A t \in AnalyzeCallers :
        AnalyzeSucceeded(t) =>
            IF anaInvoked[t]
            THEN anaRet[t].result.reviewID = anaReview[t].id
            ELSE anaRet[t].result.reviewID \in IdsWithContentOf(anaReview[t])

\* one call has computed and returned a result, and another call, for a
\* review with the same content and another id, has been served that result
C5_Witness ==
    \E t, u \in AnalyzeCallers :
        /\ AnalyzeSucceeded(t) /\ anaInvoked[t]
        /\ anaRet[t].result.reviewID = anaReview[t].id
        /\ AnalyzeSucceeded(u) /\ ~anaInvoked[u]
        /\ anaReview[u].id # anaReview[t].id
        /\ anaRet[u].result = anaRet[t].result

\* the flags of a result are the two threshold comparisons
FlagsFromThresholds(result) ==
    /\ result.isNegative = (result.sentimentScore <= anaCfg.negativeThreshold)
    /\ result.isRelevant = (result.confidence >= anaCfg.relevanceThreshold)

\* C6: in every result Analyze returns, IsNegative is SentimentScore <=
\* NegativeThreshold and IsRelevant is Confidence >= RelevanceThreshold,
\* whatever the strategy put in the flags
C6_FlagsAreThresholdComparisons ==
    \A t \in AnalyzeCallers : AnalyzeSucceeded(t) => FlagsFromThresholds(anaRet[t].result)

\* a call returns the result of a strategy that had set both flags otherwise
C6_Witness ==
    \E t \in AnalyzeCallers :
        /\ AnalyzeSucceeded(t)
        /\ anaInvoked[t]
        /\ anaResult[t].isNegative # anaRet[t].result.isNegative
        /\ anaResult[t].isRelevant # anaRet[t].result.isRelevant
        /\ anaRet[t].result.sentimentScore = anaResult[t].sentimentScore
        /\ anaRet[t].result.confidence = anaResult[t].confidence

\* the step in which the strategy called by caller t returns
StrategyReturns(t) == anaPc[t] = "strategy" /\ anaPc'[t] # "strategy"

\* the step in which caller t's Analyze call begins
AnalyzeBegins(t) == anaPc[t] = "idle" /\ anaPc'[t] # "idle"

\* C14: when the strategy fails, Analyze returns that error with the empty
\* result and leaves the cache as it was; the cache holds entries only for
\* contents a call has returned a result for, so a call for a content no call
\* has succeeded on invokes the strategy
C14_FailureIsReturnedAndNotCached ==
    [][\A t \in AnalyzeCallers :
        /\ (StrategyReturns(t) /\ anaErr'[t] # NoErr)
              => /\ anaPc'[t] = "done"
                 /\ anaRet'[t] = [result |-> EmptyResult, err |-> anaErr'[t]]
                 /\ cache' = cache
        /\ (AnalyzeBegins(t) /\ CacheKey(anaReview'[t]) \notin DOMAIN firstResult)
              => anaPc'[t] = "strategy"]_vars

\* a call for a content whose classification had failed before has invoked
\* the strategy again and failed again, with nothing cached for the content
C14_Witness ==
    \E t \in AnalyzeCallers :
        /\ anaPc[t] = "done"
        /\ anaRetry[t]
        /\ anaInvoked[t]
        /\ anaErr[t] # NoErr
        /\ anaRet[t] = [result |-> EmptyResult, err |-> anaErr[t]]
        /\ CacheKey(anaReview[t]) \notin DOMAIN cache

\* C19: once the cache holds a result for a key, no Analyze call, later or
\* concurrent, replaces, changes or removes that entry
C19_CacheEntryNeverReplaced ==
    [][\A k \in DOMAIN cache : k \in DOMAIN cache' /\ cache'[k] = cache[k]]_vars

(***************************************************************************)
(* The Scrape loops of the Twitter, G2 and Trustpilot adapters.            *)
(***************************************************************************)
\* most keywords configured for Twitter, largest MaxPages configured for G2
\* and Trustpilot
MaxUnits == 2

\* `maxPages = 5 // Default to 5 pages`
DefaultMaxPages == 5

AdapterKinds == {"Twitter", "G2", "Trustpilot"}

\* units is len(config.Keywords) for Twitter and config.MaxPages for the
\* others; pauseDuration tells whether the pacing timer is due at once
AdapterConfigs ==
    {[units |-> n, pauseBetweenRequests |-> p, pauseDuration |-> d] :
        n \in 0..MaxUnits, p \in BOOLEAN, d \in {"zero", "positive"}}

\* the iterations the loop of Scrape makes at most
Iterations(kind, cfg) ==
    IF kind = "Twitter" THEN cfg.units
    ELSE IF cfg.units <= 0 THEN DefaultMaxPages ELSE cfg.units

\* an error Scrape returns: ctx.Err() itself, or a cause wrapped by fmt.Errorf
ScrapeErr(w, c) == [wrapped |-> w, cause |-> c]
NilErr == ScrapeErr(FALSE, "nil")

\* a loop that never looks at the context
CtxErrIgnored(e) == FALSE

\* `ctx.Err() != nil` at the start of an iteration
CtxErrNotNil(e) == e # "nil"

FetchResult(rs, more) == [reviews |-> rs, hasMorePages |-> more]

\* the reviews parseHTMLResponse makes up for a page of G2
G2Page(page) == [i \in 1..Max(10 - page, 3) |-> <<"g2", page, i - 1>>]

\* what searchTweets and filterTweets, or scrapePage, can yield when no error
\* occurs
FetchResults(kind, cfg, idx) ==
    CASE kind = "Twitter" ->
            {FetchResult(rs, TRUE) :
                rs \in {<<>>, <<<<"twitter", 1>>>>, <<<<"twitter", 2>>>>,
                        <<<<"twitter", 1>>, <<"twitter", 2>>>>}}
      [] kind = "G2" -> {FetchResult(G2Page(idx), idx < cfg.units)}
      [] kind = "Trustpilot" ->
            {FetchResult(rs, more) :
                rs \in {<<>>, <<<<"trustpilot", idx, 0>>>>}, more \in BOOLEAN}

\* the causes of a failed search or fetch; a request whose context is done
\* fails with the context's error
FetchErrors(ctxError) ==
    {"request failed"} \cup (IF ctxError # "nil" THEN {ctxError} ELSE {})

\* whether the iteration ends in the pacing select
Pauses(kind, cfg, idx) ==
    IF kind = "Twitter"
    THEN cfg.units > 1 /\ cfg.pauseBetweenRequests
    ELSE idx < Iterations(kind, cfg) /\ cfg.pauseBetweenRequests

\* the cases the select can proceed with when it is entered; "none": it blocks
SelectAtEntry(cfg, ctxError) ==
    LET ready == (IF cfg.pauseDuration = "zero" THEN {"timer"} ELSE {})
                 \cup (IF ctxError # "nil" THEN {"done"} ELSE {})
    IN  IF ready = {} THEN {"none"} ELSE ready

InitAdapter ==
    /\ adKind \in AdapterKinds
    /\ adCfg \in AdapterConfigs
    /\ adPc = "call"
    /\ adIdx = 0
    /\ adReviews = <<>>
    /\ adCtxErr = "nil"
    /\ adSel = "none"
    /\ adLateCancel = FALSE
    /\ adFetches = 0
    /\ adRet = [reviews |-> <<>>, err |-> ScrapeErr(FALSE, "unset")]
    /\ adExit = "none"
    /\ ScrapeOff
    /\ RouterOff
    /\ AnalyzerOff
    /\ PipelineOff
    /\ ItemOff

\* Scrape returns
ReturnAt(where, reviews, err) ==
    /\ adPc' = "returned"
    /\ adRet' = [reviews |-> reviews, err |-> err]
    /\ adExit' = where
    /\ adIdx' = adIdx

\* the loop goes on with iteration i, or is over and Scrape returns nil
LoopTo(i, reviews) ==
    IF i <= Iterations(adKind, adCfg)
    THEN /\ adPc' = "check"
         /\ adIdx' = i
         /\ UNCHANGED <<adRet, adExit>>
    ELSE ReturnAt("end", reviews, NilErr)

\* Scrape is called and reaches its loop
ScrapeCall ==
    /\ adPc = "call"
    /\ LoopTo(1, adReviews)
    /\ UNCHANGED <<adKind, adCfg, adReviews, adCtxErr, adSel, adLateCancel, adFetches>>
    /\ UNCHANGED notAdapter

\* the start of an iteration: return on a cancelled context, or start the
\* keyword search or page fetch
IterationCheck ==
    /\ adPc = "check"
    /\ IF CtxErrNotNil(adCtxErr)
       THEN /\ ReturnAt("check", adReviews, ScrapeErr(FALSE, adCtxErr))
            /\ UNCHANGED adFetches
       ELSE /\ adPc' = "fetch"
            /\ adFetches' = adFetches + 1
            /\ UNCHANGED <<adIdx, adRet, adExit>>
    /\ UNCHANGED <<adKind, adCfg, adReviews, adCtxErr, adSel, adLateCancel>>
    /\ UNCHANGED notAdapter

\* the search or fetch fails and Scrape returns the wrapped error
FetchFails ==
    /\ adPc = "fetch"
    /\ \E cause \in FetchErrors(adCtxErr) :
        ReturnAt("fetch", adReviews, ScrapeErr(TRUE, cause))
    /\ UNCHANGED <<adKind, adCfg, adReviews, adCtxErr, adSel, adLateCancel, adFetches>>
    /\ UNCHANGED notAdapter

\* the search or fetch succeeds: the reviews are appended, and the loop
\* breaks, enters the pacing select or goes on
FetchSucceeds ==
    /\ adPc = "fetch"
    /\ \E r \in FetchResults(adKind, adCfg, adIdx) :
        LET reviews == adReviews \o r.reviews
        IN  /\ adReviews' = reviews
            /\ IF adKind # "Twitter" /\ ~r.hasMorePages
               THEN /\ ReturnAt("end", reviews, NilErr)
                    /\ UNCHANGED adSel
               ELSE IF Pauses(adKind, adCfg, adIdx)
               THEN /\ adPc' = "pause"
                    /\ adSel' \in SelectAtEntry(adCfg, adCtxErr)
                    /\ UNCHANGED <<adIdx, adRet, adExit>>
               ELSE /\ LoopTo(adIdx + 1, reviews)
                    /\ UNCHANGED adSel
    /\ UNCHANGED <<adKind, adCfg, adCtxErr, adLateCancel, adFetches>>
    /\ UNCHANGED notAdapter

\* the timer of time.After fires while Scrape waits in the select
TimerFires ==
    /\ adPc = "pause"
    /\ adSel = "none"
    /\ adSel' = "timer"
    /\ UNCHANGED <<adKind, adCfg, adPc, adIdx, adReviews, adCtxErr, adLateCancel, adFetches,
                   adRet, adExit>>
    /\ UNCHANGED notAdapter

\* the context is cancelled or its deadline passes; a Scrape waiting in the
\* select is woken on ctx.Done()
ContextDone ==
    /\ adPc # "returned"
    /\ adCtxErr = "nil"
    /\ adCtxErr' \in {"canceled", "deadline"}
    /\ IF adPc = "pause" /\ adSel = "none"
       THEN adSel' = "done" /\ adLateCancel' = TRUE
       ELSE UNCHANGED <<adSel, adLateCancel>>
    /\ UNCHANGED <<adKind, adCfg, adPc, adIdx, adReviews, adFetches, adRet, adExit>>
    /\ UNCHANGED notAdapter

\* Scrape leaves the select: it returns on ctx.Done(), or goes on after the pause
PauseEnds ==
    /\ adPc = "pause"
    /\ adSel # "none"
    /\ IF adSel = "done"
       THEN ReturnAt("pause", adReviews, ScrapeErr(FALSE, adCtxErr))
       ELSE LoopTo(adIdx + 1, adReviews)
    /\ adSel' = "none"
    /\ UNCHANGED <<adKind, adCfg, adReviews, adCtxErr, adLateCancel, adFetches>>
    /\ UNCHANGED notAdapter

NextAdapter ==
    \/ ScrapeCall
    \/ IterationCheck
    \/ FetchFails
    \/ FetchSucceeds
    \/ TimerFires
    \/ ContextDone
    \/ PauseEnds

SpecAdapter == InitAdapter /\ [][NextAdapter]_vars

(***************************************************************************)
(* Properties of the adapters.                                             *)
(***************************************************************************)
\* an iteration starts with the context cancelled
CancelledAtIterationStart == adPc = "check" /\ adCtxErr # "nil"

\* the cancellation arrived while Scrape waited in the pacing select
CancelledDuringPause == adPc = "pause" /\ adLateCancel

\* C8: in the Twitter, G2 and Trustpilot adapters, when an iteration starts
\* with the context cancelled, or the cancellation arrives during a pacing
\* delay, the next thing Scrape does is return the reviews accumulated so far
\* with the context's error, without starting another search or fetch
C8_CancelledScrapeReturnsAccumulated ==
    [][(CancelledAtIterationStart \/ CancelledDuringPause)
        => /\ adPc' = "returned"
           /\ adRet' = [reviews |-> adReviews, err |-> ScrapeErr(FALSE, adCtxErr)]
           /\ adFetches' = adFetches]_vars

\* a Scrape that had accumulated reviews was cancelled during a pacing delay
\* and has returned them with the context's error
C8_Witness ==
    /\ adPc = "returned"
    /\ adExit = "pause"
    /\ adLateCancel
    /\ adFetches > 0
    /\ Len(adRet.reviews) > 0
    /\ adRet.reviews = adReviews
    /\ adRet.err = ScrapeErr(FALSE, adCtxErr)
    /\ adCtxErr # "nil"

(***************************************************************************)
(* The pipeline driver: the scheduler goroutine of main with runPipeline,  *)
(* and the goroutine of handleRunScraping.  A run is followed through      *)
(* ScrapeAll's goroutines and, for every review, through the lock and I/O  *)
(* boundaries of Analyze, Route and Notify.                                *)
(***************************************************************************)
\* most pipeline runs one driver starts
MaxRuns == 2

\* most reviews one adapter returns to a run
MaxRunReviews == 1

PipelineKinds == {"scheduled", "manual"}

\* the adapters ScrapeAll starts a goroutine for
PipelineAdapters == {"Twitter", "G2"}

Driver == "driver"

PipelineThreads == {Driver} \cup PipelineAdapters

\* what the Scrape call of an adapter returns to ScrapeAll
PipelineScrapes(a, done) ==
    {o \in ScrapeOutcomes(a, done) :
        /\ Len(o.reviews) <= MaxRunReviews
        /\ \A i \in 1..Len(o.reviews) : o.reviews[i] \in {"twitter-1", "g2-p-1-0", "g2-p-1-1"}
        /\ o.err # NoError => o.reviews = <<>>}

AnalyzeReturn(r, e) == [result |-> r, err |-> e]

\* the result Analyze returns for a review, with the flags as given
PipelineResult(review, negative, relevant) ==
    AnalysisResult(review, IF negative THEN -Unit ELSE Unit, negative, relevant,
                   "bug_report", IF relevant THEN Unit ELSE 0, {}, {}, <<>>)

\* what a strategy call can yield for a review
PipelineStrategyOutcomes(review) ==
    {AnalyzeReturn(EmptyResult, "strategy failed")}
    \cup {AnalyzeReturn(PipelineResult(review, n, r), NoErr) : n, r \in BOOLEAN}

\* the review value of an identifier: two of the scraped reviews have the
\* same content
PipelineReview(id) == CHOOSE review \in AnalyzeInputs : review.id = id

\* the departments Route can return
PipelineDepartments == {"engineering", "support"}

\* what Notify can return
NotifyErrors == {NoErr, "notification errors: email notification error: SMTP not configured"}

NoAnalyzeReturn == AnalyzeReturn(EmptyResult, "unset")

\* the cases the select of the scheduler goroutine can proceed with
SchedulerSelect(tick, ctxError) ==
    (IF tick THEN {"tick"} ELSE {}) \cup (IF ctxError # "nil" THEN {"done"} ELSE {})

\* `if !analysisResult.IsNegative && !analysisResult.IsRelevant`
SkipsIfNeither(result) == ~result.isNegative /\ ~result.isRelevant

\* `if !analysisResult.IsNegative || !analysisResult.IsRelevant { continue }`
Skips(result) == ~result.isNegative \/ ~result.isRelevant

\* a driver that goes on to Route with the result of a failed Analyze call
AfterAnalyzeKeepingFailures(analysis) ==
    IF analysis.err = NoErr /\ Skips(analysis.result) THEN "next" ELSE "route"

\* where the loop body goes once Analyze has returned:
\* `if err != nil { log.Printf("Error analyzing review: %v", err); continue }`
\* and then the filter
AfterAnalyze(analysis) ==
    IF analysis.err # NoErr THEN "next"
    ELSE IF Skips(analysis.result) THEN "next"
    ELSE "route"

\* a manual run that drops a review only when it is neither negative nor relevant
AfterAnalyzeManualLoose(analysis) ==
    IF analysis.err # NoErr THEN "next"
    ELSE IF SkipsIfNeither(analysis.result) THEN "next"
    ELSE "route"

\* the same place in the goroutine of handleRunScraping (part_002 370-379):
\* `if err != nil { log.Printf(...); continue }` and
\* `if !analysisResult.IsNegative || !analysisResult.IsRelevant { continue }`
AfterAnalyzeManual(analysis) ==
    IF analysis.err # NoErr THEN "next"
    ELSE IF ~analysis.result.isNegative \/ ~analysis.result.isRelevant THEN "next"
    ELSE "route"

\* a read lock that is kept after the lookup
HeldAfterLookupKept(held) == held

\* a.cacheMutex.RUnlock() after the cache lookup
HeldAfterLookup(held) == held \ {"cache"}

InitPipeline ==
    /\ plKind \in PipelineKinds
    /\ plCtx = "nil"
    /\ plTick = FALSE
    /\ plSched = "first"
    /\ plRuns = 0
    /\ plPc = "none"
    /\ plTaskPc = [a \in PipelineAdapters |-> "none"]
    /\ plTaskRet = [a \in PipelineAdapters |-> NoRet]
    /\ plResults = <<>>
    /\ plErrs = <<>>
    /\ plScrapeErr = <<>>
    /\ plReviews = <<>>
    /\ plIdx = 0
    /\ plAnalysis = NoAnalyzeReturn
    /\ plDept = "none"
    /\ plHeld = [t \in PipelineThreads |-> {}]
    /\ plIo = [t \in PipelineThreads |-> "none"]
    /\ plRecent = <<>>
    /\ plCache = <<>>
    /\ plAnalyzed = <<>>
    /\ plRouted = <<>>
    /\ plNotified = <<>>
    /\ ScrapeOff
    /\ RouterOff
    /\ AnalyzerOff
    /\ AdapterOff
    /\ ItemOff

\* the variables of a run that the scheduler leaves alone
runVars == <<plTaskRet, plResults, plErrs, plScrapeErr, plReviews, plIdx, plAnalysis, plDept,
             plHeld, plRecent, plCache, plAnalyzed, plRouted, plNotified>>

\* runPipeline is called, or the goroutine of handleRunScraping starts:
\* ScrapeAll starts a goroutine for every adapter and waits
BeginRun ==
    /\ plRuns' = plRuns + 1
    /\ plSched' = "run"
    /\ plPc' = "scrape"
    /\ plTaskPc' = [a \in PipelineAdapters |-> "scraping"]
    /\ plTaskRet' = [a \in PipelineAdapters |-> NoRet]
    /\ plIo' = [t \in PipelineThreads |-> IF t \in PipelineAdapters THEN "scrape" ELSE "none"]
    /\ plResults' = <<>>
    /\ plErrs' = <<>>
    /\ plScrapeErr' = <<>>
    /\ plReviews' = <<>>
    /\ plIdx' = 0
    /\ plAnalysis' = NoAnalyzeReturn
    /\ plDept' = "none"
    /\ plAnalyzed' = <<>>
    /\ plRouted' = <<>>
    /\ plNotified' = <<>>
    /\ UNCHANGED <<plKind, plHeld, plRecent, plCache>>

\* the run made before the loop: `runPipeline(ctx, ...)` right after the ticker is made
FirstRun ==
    /\ plSched = "first"
    /\ plRuns < MaxRuns
    /\ BeginRun
    /\ UNCHANGED <<plCtx, plTick>>
    /\ UNCHANGED notPipeline

\* the select of the scheduler goroutine: a tick starts a run, ctx.Done() ends
\* the goroutine
SchedulerLoop ==
    /\ plSched = "select"
    /\ \E case \in SchedulerSelect(plTick, plCtx) :
        IF case = "tick"
        THEN /\ plRuns < MaxRuns
             /\ BeginRun
             /\ plTick' = FALSE
             /\ UNCHANGED plCtx
        ELSE /\ plSched' = "stopped"
             /\ UNCHANGED <<plKind, plCtx, plTick, plRuns, plPc, plTaskPc, plIo>>
             /\ UNCHANGED runVars
    /\ UNCHANGED notPipeline

\* the ticker puts a tick in ticker.C, which holds one tick at most
TickerFires ==
    /\ plKind = "scheduled"
    /\ plSched # "stopped"
    /\ ~plTick
    /\ plTick' = TRUE
    /\ UNCHANGED <<plKind, plCtx, plSched, plRuns, plPc, plTaskPc, plIo>>
    /\ UNCHANGED runVars
    /\ UNCHANGED notPipeline

\* cancel() of the process context: the API server failed
ProcessCancelled ==
    /\ plKind = "scheduled"
    /\ plSched # "stopped"
    /\ plCtx = "nil"
    /\ plCtx' = "canceled"
    /\ UNCHANGED <<plKind, plTick, plSched, plRuns, plPc, plTaskPc, plIo>>
    /\ UNCHANGED runVars
    /\ UNCHANGED notPipeline

\* the variables of the scheduler, which a step inside a run leaves alone
schedVars == <<plKind, plCtx, plTick, plRuns>>

\* g2.go 296-299: the goroutine's `reviews, err := scraper.Scrape(ctx)` returns
RunScrapeReturns(a) ==
    /\ plTaskPc[a] = "scraping"
    /\ \E o \in PipelineScrapes(a, plCtx # "nil") :
        plTaskRet' = [plTaskRet EXCEPT ![a] = o]
    /\ plTaskPc' = [plTaskPc EXCEPT ![a] = "returned"]
    /\ plIo' = [plIo EXCEPT ![a] = "none"]
    /\ UNCHANGED <<schedVars, plSched, plPc, plResults, plErrs, plScrapeErr, plReviews, plIdx,
                   plAnalysis, plDept, plHeld, plRecent, plCache, plAnalyzed, plRouted,
                   plNotified>>
    /\ UNCHANGED notPipeline

\* g2.go 301: mu.Lock()
RunAccumulatorLock(a) ==
    /\ plTaskPc[a] = "returned"
    /\ \A t \in PipelineThreads : "mu" \notin plHeld[t]
    /\ plHeld' = [plHeld EXCEPT ![a] = @ \cup {"mu"}]
    /\ plTaskPc' = [plTaskPc EXCEPT ![a] = "locked"]
    /\ UNCHANGED <<schedVars, plSched, plPc, plTaskRet, plResults, plErrs, plScrapeErr,
                   plReviews, plIdx, plAnalysis, plDept, plIo, plRecent, plCache, plAnalyzed,
                   plRouted, plNotified>>
    /\ UNCHANGED notPipeline

\* g2.go 304-310: the append to errs or to results; the deferred mu.Unlock()
\* and wg.Done() run as the goroutine ends
RunAccumulate(a) ==
    /\ plTaskPc[a] = "locked"
    /\ IF plTaskRet[a].err # NoError
       THEN /\ plErrs' = Append(plErrs, WrapScraperError(a, plTaskRet[a].err))
            /\ UNCHANGED plResults
       ELSE /\ plResults' = plResults \o plTaskRet[a].reviews
            /\ UNCHANGED plErrs
    /\ plHeld' = [plHeld EXCEPT ![a] = @ \ {"mu"}]
    /\ plTaskPc' = [plTaskPc EXCEPT ![a] = "finished"]
    /\ UNCHANGED <<schedVars, plSched, plPc, plTaskRet, plScrapeErr, plReviews, plIdx,
                   plAnalysis, plDept, plIo, plRecent, plCache, plAnalyzed, plRouted,
                   plNotified>>
    /\ UNCHANGED notPipeline

\* where the driver goes when runPipeline returns: back to the select of the
\* scheduler; the goroutine of handleRunScraping ends
AfterRun(kind) == IF kind = "scheduled" THEN "select" ELSE "stopped"

\* wg.Wait() is over and ScrapeAll returns; on an error the run logs it and
\* returns (main.go 146-150, part_002 357-361)
RunScrapeAllReturns ==
    /\ plPc = "scrape"
    /\ \A a \in PipelineAdapters : plTaskPc[a] = "finished"
    /\ LET r == ScrapeAllResult(plResults, plErrs)
       IN  /\ plScrapeErr' = r.err
           /\ plReviews' = r.reviews
           /\ IF r.err # <<>>
              THEN /\ plPc' = "none"
                   /\ plSched' = AfterRun(plKind)
              ELSE /\ plPc' = "next"
                   /\ UNCHANGED plSched
    /\ UNCHANGED <<schedVars, plTaskPc, plTaskRet, plResults, plErrs, plIdx, plAnalysis, plDept,
                   plHeld, plIo, plRecent, plCache, plAnalyzed, plRouted, plNotified>>
    /\ UNCHANGED notPipeline

\* `for _, review := range reviews`: the next review, or the end of the run;
\* the manual run stores the review with AddRecentReview first (part_002 367)
RunNextReview ==
    /\ plPc = "next"
    /\ IF plIdx < Len(plReviews)
       THEN /\ plIdx' = plIdx + 1
            /\ plPc' = "analyze"
            /\ plRecent' = IF plKind = "manual"
                           THEN Append(plRecent, plReviews[plIdx + 1]) ELSE plRecent
            /\ UNCHANGED plSched
       ELSE /\ plPc' = "none"
            /\ plSched' = AfterRun(plKind)
            /\ UNCHANGED <<plIdx, plRecent>>
    /\ plAnalysis' = NoAnalyzeReturn
    /\ plDept' = "none"
    /\ UNCHANGED <<schedVars, plTaskPc, plTaskRet, plResults, plErrs, plScrapeErr, plReviews,
                   plHeld, plIo, plCache, plAnalyzed, plRouted, plNotified>>
    /\ UNCHANGED notPipeline

\* analyzer.go 148: a.cacheMutex.RLock()
RunCacheRLock ==
    /\ plPc = "analyze"
    /\ plHeld' = [plHeld EXCEPT ![Driver] = @ \cup {"cache"}]
    /\ plPc' = "rlocked"
    /\ UNCHANGED <<schedVars, plSched, plTaskPc, plTaskRet, plResults, plErrs, plScrapeErr,
                   plReviews, plIdx, plAnalysis, plDept, plIo, plRecent, plCache, plAnalyzed,
                   plRouted, plNotified>>
    /\ UNCHANGED notPipeline

\* analyzer.go 149-154: the lookup and RUnlock; a hit returns the cached
\* result, a miss goes on to the strategy call
RunCacheLookup ==
    /\ plPc = "rlocked"
    /\ LET cacheKey == CacheKey(PipelineReview(plReviews[plIdx]))
       IN  IF cacheKey \in DOMAIN plCache
           THEN /\ plAnalysis' = AnalyzeReturn(plCache[cacheKey], NoErr)
                /\ plPc' = "analyzed"
                /\ UNCHANGED plIo
           ELSE /\ plPc' = "strategy"
                /\ plIo' = [plIo EXCEPT ![Driver] = "strategy"]
                /\ UNCHANGED plAnalysis
    /\ plHeld' = [plHeld EXCEPT ![Driver] = HeldAfterLookup(@)]
    /\ UNCHANGED <<schedVars, plSched, plTaskPc, plTaskRet, plResults, plErrs, plScrapeErr,
                   plReviews, plIdx, plDept, plRecent, plCache, plAnalyzed, plRouted,
                   plNotified>>
    /\ UNCHANGED notPipeline

\* analyzer.go 160-179: the strategy call returns; an error is returned to
\* the run with an empty result, a result is post-processed and kept for the store
RunStrategyReturns ==
    /\ plPc = "strategy"
    /\ \E o \in PipelineStrategyOutcomes(plReviews[plIdx]) :
        /\ plAnalysis' = o
        /\ plPc' = IF o.err # NoErr THEN "analyzed" ELSE "store"
    /\ plIo' = [plIo EXCEPT ![Driver] = "none"]
    /\ UNCHANGED <<schedVars, plSched, plTaskPc, plTaskRet, plResults, plErrs, plScrapeErr,
                   plReviews, plIdx, plDept, plHeld, plRecent, plCache, plAnalyzed, plRouted,
                   plNotified>>
    /\ UNCHANGED notPipeline

\* analyzer.go 187: a.cacheMutex.Lock()
RunCacheLock ==
    /\ plPc = "store"
    /\ plHeld' = [plHeld EXCEPT ![Driver] = @ \cup {"cache"}]
    /\ plPc' = "wlocked"
    /\ UNCHANGED <<schedVars, plSched, plTaskPc, plTaskRet, plResults, plErrs, plScrapeErr,
                   plReviews, plIdx, plAnalysis, plDept, plIo, plRecent, plCache, plAnalyzed,
                   plRouted, plNotified>>
    /\ UNCHANGED notPipeline

\* analyzer.go 188-191: a.cache[cacheKey] = result, Unlock, return
RunCacheStore ==
    /\ plPc = "wlocked"
    /\ LET cacheKey == CacheKey(PipelineReview(plReviews[plIdx]))
       IN  plCache' = [k \in DOMAIN plCache \cup {cacheKey} |->
                          IF k = cacheKey THEN plAnalysis.result ELSE plCache[k]]
    /\ plHeld' = [plHeld EXCEPT ![Driver] = @ \ {"cache"}]
    /\ plPc' = "analyzed"
    /\ UNCHANGED <<schedVars, plSched, plTaskPc, plTaskRet, plResults, plErrs, plScrapeErr,
                   plReviews, plIdx, plAnalysis, plDept, plIo, plRecent, plAnalyzed, plRouted,
                   plNotified>>
    /\ UNCHANGED notPipeline

\* main.go 158-167, part_002 370-379: Analyze has returned; on an error the
\* run logs it and continues with the next review, and so it does for a result
\* that is not both negative and relevant
RunAfterAnalyze ==
    /\ plPc = "analyzed"
    /\ plAnalyzed' = Append(plAnalyzed, [idx |-> plIdx, analysis |-> plAnalysis])
    /\ plPc' = IF plKind = "manual" THEN AfterAnalyzeManual(plAnalysis)
               ELSE AfterAnalyze(plAnalysis)
    /\ UNCHANGED <<schedVars, plSched, plTaskPc, plTaskRet, plResults, plErrs, plScrapeErr,
                   plReviews, plIdx, plAnalysis, plDept, plHeld, plIo, plRecent, plCache,
                   plRouted, plNotified>>
    /\ UNCHANGED notPipeline

\* router.go 132: r.mutex.RLock()
RunRouterRLock ==
    /\ plPc = "route"
    /\ plHeld' = [plHeld EXCEPT ![Driver] = @ \cup {"router"}]
    /\ plPc' = "routing"
    /\ UNCHANGED <<schedVars, plSched, plTaskPc, plTaskRet, plResults, plErrs, plScrapeErr,
                   plReviews, plIdx, plAnalysis, plDept, plIo, plRecent, plCache, plAnalyzed,
                   plRouted, plNotified>>
    /\ UNCHANGED notPipeline

\* router.go 133-184: Route returns a department and the deferred RUnlock
\* runs; the run calls Notify with it (main.go 170-173)
RunRouteReturns ==
    /\ plPc = "routing"
    /\ \E d \in PipelineDepartments :
        /\ plDept' = d
        /\ plRouted' = Append(plRouted, [idx |-> plIdx, analysis |-> plAnalysis.result,
                                         dept |-> d])
    /\ plHeld' = [plHeld EXCEPT ![Driver] = @ \ {"router"}]
    /\ plPc' = "notify"
    /\ plIo' = [plIo EXCEPT ![Driver] = "notify"]
    /\ UNCHANGED <<schedVars, plSched, plTaskPc, plTaskRet, plResults, plErrs, plScrapeErr,
                   plReviews, plIdx, plAnalysis, plRecent, plCache, plAnalyzed, plNotified>>
    /\ UNCHANGED notPipeline

\* main.go 173-175: Notify returns; its error is logged and the loop goes on
RunNotifyReturns ==
    /\ plPc = "notify"
    /\ \E e \in NotifyErrors :
        plNotified' = Append(plNotified,
                             [idx |-> plIdx, review |-> plReviews[plIdx], dept |-> plDept,
                              analysis |-> plAnalysis.result, err |-> e])
    /\ plIo' = [plIo EXCEPT ![Driver] = "none"]
    /\ plPc' = "next"
    /\ UNCHANGED <<schedVars, plSched, plTaskPc, plTaskRet, plResults, plErrs, plScrapeErr,
                   plReviews, plIdx, plAnalysis, plDept, plHeld, plRecent, plCache, plAnalyzed,
                   plRouted>>
    /\ UNCHANGED notPipeline

NextPipeline ==
    \/ FirstRun
    \/ SchedulerLoop
    \/ TickerFires
    \/ ProcessCancelled
    \/ \E a \in PipelineAdapters : RunScrapeReturns(a)
    \/ \E a \in PipelineAdapters : RunAccumulatorLock(a)
    \/ \E a \in PipelineAdapters : RunAccumulate(a)
    \/ RunScrapeAllReturns
    \/ RunNextReview
    \/ RunCacheRLock
    \/ RunCacheLookup
    \/ RunStrategyReturns
    \/ RunCacheLock
    \/ RunCacheStore
    \/ RunAfterAnalyze
    \/ RunRouterRLock
    \/ RunRouteReturns
    \/ RunNotifyReturns

SpecPipeline == InitPipeline /\ [][NextPipeline]_vars

\* C20: no thread ever holds more than one of the three locks (the accumulator
\* mutex of ScrapeAll, the cache lock of the analyzer, the lock of the router),
\* and a thread holds none of them while its Scrape call, its strategy call or
\* its Notify call is in progress.
C20_OneLockAtATimeAndNoneAcrossCalls ==
    \A t \in PipelineThreads :
        /\ Cardinality(plHeld[t]) <= 1
        /\ plIo[t] \in {"scrape", "strategy", "notify"} => plHeld[t] = {}

\* the driver is in the Notify call for the second review of a run: the
\* goroutines have used the accumulator mutex, the driver the cache lock for a
\* lookup and a store and the router lock, and all three kinds of call were made
C20_Witness ==
    /\ plIo[Driver] = "notify"
    /\ plIdx = 2
    /\ plCache # <<>>
    /\ \A a \in PipelineAdapters : plTaskPc[a] = "finished" /\ plTaskRet[a].err = NoError

\* the run in progress has gone through its whole list of reviews
RunComplete == plRuns > 0 /\ plPc = "none" /\ plScrapeErr = <<>>

\* the entries of a log of the run that are about the review at index idx
EntriesOf(log, idx) == {i \in 1..Len(log) : log[i].idx = idx}

\* Analyze returned a result that is negative and relevant for the review at idx
Survives(idx) ==
    \E i \in EntriesOf(plAnalyzed, idx) :
        /\ plAnalyzed[i].analysis.err = NoErr
        /\ plAnalyzed[i].analysis.result.isNegative
        /\ plAnalyzed[i].analysis.result.isRelevant

\* Analyze returned an error for the review at idx
AnalyzeFailedFor(idx) ==
    \E i \in EntriesOf(plAnalyzed, idx) : plAnalyzed[i].analysis.err # NoErr

\* C15 (as stated): a review for which Analyze returned an error is classified
\* by the local strategy and goes on to the filter, Route and Notify: when the
\* run is over, a classification of that review has succeeded.
C15_FailedReviewIsClassifiedLocally ==
    RunComplete =>
        \A idx \in 1..Len(plReviews) :
            AnalyzeFailedFor(idx) =>
                \E i \in EntriesOf(plAnalyzed, idx) : plAnalyzed[i].analysis.err = NoErr

\* C15 (amended): a review for which Analyze returned an error is logged and
\* skipped: it is classified no second time, it is neither routed nor notified
\* in that run, and the run goes on to the reviews after it, so that at the end
\* of the run Analyze has been called once for every review.
C15_FailedReviewIsSkipped ==
    /\ \A idx \in 1..Len(plReviews) :
          AnalyzeFailedFor(idx) =>
              /\ Cardinality(EntriesOf(plAnalyzed, idx)) = 1
              /\ EntriesOf(plRouted, idx) = {}
              /\ EntriesOf(plNotified, idx) = {}
              /\ plPc \notin {"route", "routing", "notify"} \/ plIdx # idx
    /\ RunComplete =>
          \A idx \in 1..Len(plReviews) : Cardinality(EntriesOf(plAnalyzed, idx)) = 1

\* a run of either kind is over in which Analyze failed for the first review
\* and the second review was notified
C15_Witness ==
    /\ RunComplete
    /\ Len(plReviews) = 2
    /\ AnalyzeFailedFor(1)
    /\ EntriesOf(plNotified, 2) # {}

\* C16: in one run Notify is called exactly once for every scraped review
\* whose analysis is negative and relevant, with that review, that analysis and
\* the department Route returned for it, and for no other review; an error of
\* Notify for one review does not keep the later reviews from being processed.
C16_NotifyOncePerSurvivingReview ==
    /\ \A i \in 1..Len(plNotified) :
          LET n == plNotified[i]
          IN  /\ Survives(n.idx)
              /\ EntriesOf(plNotified, n.idx) = {i}
              /\ n.review = plReviews[n.idx]
              /\ \E j \in EntriesOf(plAnalyzed, n.idx) : plAnalyzed[j].analysis.result = n.analysis
              /\ \E j \in EntriesOf(plRouted, n.idx) :
                    /\ EntriesOf(plRouted, n.idx) = {j}
                    /\ plRouted[j].dept = n.dept
    /\ RunComplete =>
          \A idx \in 1..Len(plReviews) :
              /\ EntriesOf(plAnalyzed, idx) # {}
              /\ Survives(idx) => EntriesOf(plNotified, idx) # {}

\* a run is over in which Notify failed for the first review and was called
\* for the second one as well
C16_Witness ==
    /\ RunComplete
    /\ Len(plNotified) = 2
    /\ plNotified[1].idx = 1 /\ plNotified[1].err # NoErr
    /\ plNotified[2].idx = 2

\* C17: a run whose ScrapeAll call returned an error classifies, routes and
\* notifies nothing and hands control back to the scheduler, which waits for
\* the next tick; once the process context is cancelled, no further run is
\* started after the first one.
C17_FailedRunSkippedAndNoRunAfterCancel ==
    [][/\ plScrapeErr' # <<>> =>
            /\ plAnalyzed' = <<>> /\ plRouted' = <<>> /\ plNotified' = <<>>
            /\ plPc' = "none"
       /\ (plKind = "scheduled" /\ plPc = "scrape" /\ plScrapeErr' # <<>>) =>
            plSched' = "select"
       /\ (plKind = "scheduled" /\ plCtx = "canceled" /\ plRuns >= 1) => plRuns' = plRuns]_vars

\* C18: the reviews of one ScrapeAll call have pairwise distinct identifiers;
\* ScrapeAll appends the list of every adapter as it is, so the list one
\* adapter's Scrape call returns, collected over its keywords or pages, has
\* pairwise distinct identifiers.
C18_ScrapedIdsPairwiseDistinct ==
    adPc = "returned" =>
        \A i, j \in 1..Len(adRet.reviews) : i # j => adRet.reviews[i] # adRet.reviews[j]

\* C30: the Scrape call of G2 starts at most as many page fetches as its page
\* limit, which is config.MaxPages, or 5 when that is not positive; with
\* MaxPages not positive, a call that meets no page error and no cancellation
\* has fetched the pages 1 to 5 when it returns.
C30_G2FetchesUpToPageLimit ==
    adKind = "G2" =>
        /\ adFetches <= Iterations("G2", adCfg)
        /\ (adPc = "returned" /\ adExit = "end" /\ adCtxErr = "nil" /\ adCfg.units <= 0)
              => adFetches = DefaultMaxPages /\ adIdx = DefaultMaxPages

\* C28: the reviews an adapter returns together with an error never get into
\* the result of ScrapeAll: the accumulator holds, and ScrapeAll returns, only
\* reviews of adapters whose Scrape returned a nil error.
C28_ReviewsOfFailedAdaptersDiscarded ==
    /\ IsUnionOf(results, Succeeded)
    /\ mainPc = "done" =>
          /\ \A id \in AllReviewIds : Count(ret.reviews, id) <= CountIn(Succeeded, id)
          /\ \A a \in Failed : Range(ret.reviews) \cap ReviewIds(a) = {}

\* ScrapeAll has returned the reviews of a successful adapter while another
\* adapter had returned partial results with the error of the cancelled context
C28_Witness ==
    /\ mainPc = "done"
    /\ \E a \in Failed : taskRet[a].reviews # <<>> /\ taskRet[a].err = "context done"
    /\ \E b \in Succeeded : taskRet[b].reviews # <<>> /\ ret.reviews = taskRet[b].reviews

\* the modes the switch of Analyze names
KnownModes == {"local", "openai", "google", "aws", "azure"}

\* what Analyze returns for a review it computes a result for when the mode is
\* "local" and the rest of the configuration is as given
LocalReturns(cfg, review) ==
    LET local == [cfg EXCEPT !.mode = "local"]
    IN  {[result |-> PostProcess(local, review, out.result), err |-> out.err] :
            out \in Strategy(local, review)}

\* C26: with a mode that is empty or none of local, openai, google, aws and
\* azure, an Analyze call that computes its result uses the local strategy: it
\* returns no error and a result that the same call returns with mode "local".
C26_UnknownModeIsLocal ==
    \A t \in AnalyzeCallers :
        (anaPc[t] = "done" /\ anaInvoked[t] /\ anaCfg.mode \notin KnownModes)
            => /\ anaErr[t] = NoErr
               /\ anaRet[t] \in LocalReturns(anaCfg, anaReview[t])

\* a call with the empty mode has computed and returned a result for a review
\* with a rating
C26_Witness ==
    \E t \in AnalyzeCallers :
        /\ anaPc[t] = "done"
        /\ anaInvoked[t]
        /\ anaCfg.mode = ""
        /\ anaReview[t].id = "g2-p-1-0"
        /\ anaRet[t].err = NoErr
        /\ anaRet[t].result.reviewID = "g2-p-1-0"
        /\ anaRet[t].result.intentCategory # ""

\* the indices of the reviews of the run whose analysis is negative and
\* relevant, in the order of the list
RECURSIVE SurvivorsUpTo(_)
SurvivorsUpTo(n) ==
    IF n = 0 THEN <<>>
    ELSE IF Survives(n) THEN Append(SurvivorsUpTo(n - 1), n)
    ELSE SurvivorsUpTo(n - 1)

\* C27: for the same list returned by ScrapeAll and the same answers of the
\* analyzer and the router, the manual run and the scheduled run make the same
\* calls in the same order: Analyze once for every review in list order, then
\* Route with the analysis and Notify with the department, the review and the
\* analysis for exactly the reviews whose analysis is negative and relevant,
\* whichever of the two drivers runs.
C27_ManualRunMakesTheCallsOfScheduledRun ==
    RunComplete =>
        LET survivors == SurvivorsUpTo(Len(plReviews))
        IN  /\ [i \in 1..Len(plAnalyzed) |-> plAnalyzed[i].idx] = [i \in 1..Len(plReviews) |-> i]
            /\ [i \in 1..Len(plRouted) |-> plRouted[i].idx] = survivors
            /\ [i \in 1..Len(plNotified) |-> plNotified[i].idx] = survivors
            /\ \A i \in 1..Len(survivors) :
                  /\ plRouted[i].analysis = plAnalyzed[survivors[i]].analysis.result
                  /\ plNotified[i].dept = plRouted[i].dept
                  /\ plNotified[i].review = plReviews[survivors[i]]
                  /\ plNotified[i].analysis = plRouted[i].analysis

\* a manual run is over that dropped its first review, which was negative but
\* not relevant, and routed and notified its second one
C27_Witness ==
    /\ RunComplete
    /\ plKind = "manual"
    /\ Len(plRecent) = 2
    /\ Len(plAnalyzed) = 2
    /\ plAnalyzed[1].analysis.err = NoErr
    /\ plAnalyzed[1].analysis.result.isNegative
    /\ ~plAnalyzed[1].analysis.result.isRelevant
    /\ [i \in 1..Len(plNotified) |-> plNotified[i].idx] = <<2>>

(***************************************************************************)
(* From a fetched item to an analysis: filterTweets and                    *)
(* convertTweetToReview of the Twitter adapter, the page parsers of G2 and *)
(* Trustpilot, and analyzeLocal on the reviews they make.  A text is a     *)
(* sequence of pieces: words, phrases, blanks and URLs.                    *)
(***************************************************************************)
\* most items one search or one page holds
MaxItems == 2

Blank == " "

Url == "https://t.co/x"

\* what a piece of text holds: its lower-case form, its length in bytes, the
\* occurrences of words of positiveWords and negativeWords, of "!" and of runs
\* of three or more capitals, and the lower-case terms it contains with their
\* byte offsets
Piece(l, n, pos, neg, excl, caps, ts) ==
    [lower |-> l, len |-> n, positive |-> pos, negative |-> neg, exclamations |-> excl,
     capitals |-> caps, terms |-> ts]

Term(t, off) == [term |-> t, offset |-> off]

ManyTerms == "infoblox bloxone nios ddi netmri ipam dhcp dns crash support slow"

\* the contents parseHTMLResponse gives the reviews of a G2 page
G2Content0 ==
    "The DNS and DHCP management capabilities are excellent. Easy to configure and maintain."

G2Content1 ==
    "We've been using this for our enterprise network for 3 years. Generally stable but occasionally has issues with high load."

G2Content2 ==
    "Great for managing complex network environments. The automation capabilities save us hours each week."

G2Content3 ==
    "Solid product for DDI management. We migrated from a competitor and found the process smoother than expected."

LowerG2Content0 ==
    "the dns and dhcp management capabilities are excellent. easy to configure and maintain."

LowerG2Content1 ==
    "we've been using this for our enterprise network for 3 years. generally stable but occasionally has issues with high load."

LowerG2Content2 ==
    "great for managing complex network environments. the automation capabilities save us hours each week."

LowerG2Content3 ==
    "solid product for ddi management. we migrated from a competitor and found the process smoother than expected."

Pieces ==
    [w \in {"Terrible"} |-> Piece("terrible", 8, 0, 1, 0, 0, {})] @@
    [w \in {"crash"} |-> Piece("crash", 5, 0, 1, 0, 0, {Term("crash", 0)})] @@
    [w \in {"great"} |-> Piece("great", 5, 1, 0, 0, 0, {})] @@
    [w \in {"dns"} |-> Piece("dns", 3, 0, 0, 0, 0, {Term("dns", 0)})] @@
    [w \in {"free"} |-> Piece("free", 4, 0, 0, 0, 0, {})] @@
    [w \in {"ad"} |-> Piece("ad", 2, 0, 0, 0, 0, {})] @@
    [w \in {"SPAM"} |-> Piece("spam", 4, 0, 0, 0, 1, {})] @@
    [w \in {"!!!"} |-> Piece("!!!", 3, 0, 0, 3, 0, {})] @@
    [w \in {Blank} |-> Piece(Blank, 1, 0, 0, 0, 0, {})] @@
    [w \in {Url} |-> Piece(Url, 14, 0, 0, 0, 0, {})] @@
    [w \in {ManyTerms} |->
        Piece(ManyTerms, 65, 0, 2, 0, 0,
              {Term("infoblox", 0), Term("bloxone", 9), Term("nios", 17), Term("ddi", 22),
               Term("netmri", 26), Term("ipam", 33), Term("dhcp", 38), Term("dns", 43),
               Term("crash", 47), Term("support", 53), Term("slow", 61)})] @@
    [w \in {G2Content0} |->
        Piece(LowerG2Content0, 87, 1, 0, 0, 2,
              {Term("dns", 4), Term("dhcp", 12)})] @@
    [w \in {G2Content1} |-> Piece(LowerG2Content1, 122, 0, 1, 0, 0, {})] @@
    [w \in {G2Content2} |-> Piece(LowerG2Content2, 101, 1, 0, 0, 0, {})] @@
    [w \in {G2Content3} |->
        Piece(LowerG2Content3, 109, 0, 0, 0, 1,
              {Term("product", 6), Term("ddi", 18)})] @@
    [w \in {"3-Star Review of Infoblox DDI Solution", "4-Star Review of Infoblox DDI Solution",
            "5-Star Review of Infoblox DDI Solution"} |->
        Piece("n-star review of infoblox ddi solution", 38, 0, 0, 0, 1,
              {Term("infoblox", 17), Term("ddi", 26)})]

\* the lower-case form of a piece; a piece not listed is in lower case already
LowerOf(w) ==
    CASE w \in DOMAIN Pieces -> Pieces[w].lower
      [] w = "Spam" -> "spam"
      [] OTHER -> w

\* strings.ToLower
ToLower(text) == [i \in 1..Len(text) |-> LowerOf(text[i])]

\* strings.Contains(text, word) for a word or phrase given as pieces
Contains(text, word) ==
    \E i \in 0..(Len(text) - Len(word)) :
        \A j \in 1..Len(word) : text[i + j] = word[j]

\* urlPattern.ReplaceAllString(text, ""): `https?://\S+` ends at the next blank
RECURSIVE RemoveUrls(_)
RemoveUrls(text) ==
    IF text = <<>> THEN <<>>
    ELSE IF Head(text) = Url THEN RemoveUrls(Tail(text))
    ELSE <<Head(text)>> \o RemoveUrls(Tail(text))

\* strings.TrimSpace
RECURSIVE TrimSpace(_)
TrimSpace(text) ==
    IF text = <<>> THEN <<>>
    ELSE IF Head(text) = Blank THEN TrimSpace(Tail(text))
    ELSE IF text[Len(text)] = Blank THEN TrimSpace(SubSeq(text, 1, Len(text) - 1))
    ELSE text

RECURSIVE SumOver(_, _)
\* the sum of field f of the pieces of a text
SumOver(text, f) ==
    IF text = <<>> THEN 0 ELSE Pieces[Head(text)][f] + SumOver(Tail(text), f)

\* the byte offset of piece i in its text
OffsetOf(text, i) == SumOver(SubSeq(text, 1, i - 1), "len")

\* the lower-case terms a text contains
TermsOf(text) == UNION {{t.term : t \in Pieces[text[i]].terms} : i \in 1..Len(text)}

\* strings.Index(content, term) for a term the text contains: the offset of
\* its first occurrence
IndexOf(text, term) ==
    LET at == UNION {{OffsetOf(text, i) + t.offset :
                        t \in {x \in Pieces[text[i]].terms : x.term = term}} :
                     i \in 1..Len(text)}
    IN  CHOOSE o \in at : \A other \in at : o <= other

\* cfg.Keywords of the analyzer, in lower case: the keys of a.keywordMap
ConfiguredKeywords == {"crash", "dns", "support", "slow"}

\* infobloxProducts of analyzeLocal
InfobloxProducts ==
    {"infoblox", "bloxone", "nios", "ddi", "dns firewall", "threat defense", "netmri",
     "ip address management", "ipam", "dhcp", "advanced dns protection"}

\* productPatterns and genericPatterns of analyzeLocal
EntityPatterns ==
    {"infoblox", "bloxone", "nios", "ddi", "dhcp", "dns", "ipam", "netmri", "threat defense",
     "dns firewall", "cloud network automation"}
    \cup {"app", "website", "service", "product", "interface", "platform", "system"}

\* what analyzeLocal reads off a text: the counts of sentiment words, of "!"
\* and of runs of capitals, the matched keywords and the entities
TextStats(text) ==
    ReviewText(text, SumOver(text, "positive"), SumOver(text, "negative"),
               SumOver(text, "exclamations"), SumOver(text, "capitals"),
               TermsOf(text) \cap (ConfiguredKeywords \cup InfobloxProducts),
               {Entity(t, IndexOf(text, t)) : t \in TermsOf(text) \cap EntityPatterns})

\* a strategy that scores the title and the content
LocalTextWithTitle(review) ==
    IF review.title = <<>> THEN review.content
    ELSE review.title \o <<Blank>> \o review.content

\* `content := strings.ToLower(review.Content)`: the text analyzeLocal scores
LocalText(review) == review.content

\* analyzeLocal for a review an adapter made
AnalyzeLocalOf(review) ==
    AnalyzeLocal(Review(review.id, TextStats(LocalText(review)), review.rating))

\* models.Review as the adapters fill it
ScrapedReview(i, t, c, r) == [id |-> i, title |-> t, content |-> c, rating |-> r]

Tweet(i, t, rt, fav) == [id |-> i, text |-> t, retweetCount |-> rt, favoriteCount |-> fav]

\* the texts of the tweets a search returns
TweetTexts ==
    {<<"Terrible", Blank, "dns", Blank, "crash", "!!!">>,
     <<Url>>,
     <<"SPAM", Blank, "great">>,
     <<"free", Url, Blank, "ad">>,
     <<"great", Blank, Url>>}

\* retweet and favorite counts of a tweet
Engagements == {<<0, 0>>, <<5, 10>>, <<40, 10>>}

Tweets ==
    {Tweet(i, t, e[1], e[2]) : i \in {"1", "2"}, t \in TweetTexts, e \in Engagements}

\* config.ExcludeWords
ExcludeWordLists == {<<>>, <<<<"Spam">>>>, <<<<"spam">>, <<"free", Blank, "ad">>>>}

\* filterTweets: the tweets whose lower-cased text contains no lower-cased
\* exclude word, in their order
FilterTweets(tweets, excludeWords) ==
    IF Len(excludeWords) = 0
    THEN tweets
    ELSE SelectSeq(tweets,
                   LAMBDA tweet :
                       ~\E k \in 1..Len(excludeWords) :
                           Contains(ToLower(tweet.text), ToLower(excludeWords[k])))

\* `engagementScore := float64(tweet.FavoriteCount+tweet.RetweetCount) / 10.0`,
\* capped at 5.0, and `rating := 5.0 - engagementScore`, in tenths of a star
EngagementRating(tweet) ==
    Rating(50 - Min(tweet.favoriteCount + tweet.retweetCount, 50))

\* convertTweetToReview
ConvertTweetToReview(tweet) ==
    ScrapedReview(<<"twitter-", tweet.id>>, <<>>, TrimSpace(RemoveUrls(tweet.text)),
                  EngagementRating(tweet))

\* config.ProductID of G2 and config.BusinessID of Trustpilot
ProductID == "infoblox"

\* the i-th review parseHTMLResponse makes up for a page of G2
G2Review(page, i) ==
    LET rating == 3 + (i % 3)
    IN  ScrapedReview(<<"g2", ProductID, page, i>>,
                      <<CASE rating = 3 -> "3-Star Review of Infoblox DDI Solution"
                          [] rating = 4 -> "4-Star Review of Infoblox DDI Solution"
                          [] rating = 5 -> "5-Star Review of Infoblox DDI Solution">>,
                      <<CASE i % 4 = 0 -> G2Content0
                          [] i % 4 = 1 -> G2Content1
                          [] i % 4 = 2 -> G2Content2
                          [] i % 4 = 3 -> G2Content3>>,
                      Rating(10 * rating))

\* parseHTMLResponse: `reviewsPerPage := 10 - page`, at least 3
G2Reviews(page) == [k \in 1..Max(10 - page, 3) |-> G2Review(page, k - 1)]

\* an `article.review` element of a Trustpilot page: its id attribute, the
\* number in the alt text of its star image ("": none), the text of its title
\* element and of its content element (<<>>: the element is missing or empty)
Article(i, r, t, c) == [idAttr |-> i, ratingStr |-> r, title |-> t, content |-> c]

Articles ==
    {Article(i, r, t, c) :
        i \in {"", "rev-1"}, r \in {"", "1", "5"},
        t \in {<<>>, <<"Terrible", Blank, "crash">>},
        c \in {<<>>, <<Blank, "dns", Blank>>, <<ManyTerms>>}}

\* strconv.ParseFloat(ratingStr, 64), in tenths of a star
ParseRating(ratingStr) ==
    CASE ratingStr = "" -> NilRating
      [] ratingStr = "1" -> Rating(10)
      [] ratingStr = "5" -> Rating(50)

\* the review scrapePage of Trustpilot makes of the i-th article of a page
TrustpilotReview(article, page, i) ==
    ScrapedReview(IF article.idAttr = "" THEN <<"trustpilot", ProductID, page, i>>
                  ELSE article.idAttr,
                  TrimSpace(article.title), TrimSpace(article.content),
                  ParseRating(article.ratingStr))

ItemKinds == {"Twitter", "G2", "Trustpilot"}

\* the items one search or one page can hold
FetchedItems(kind) ==
    CASE kind = "Twitter" -> SeqsUpTo(Tweets, MaxItems)
      [] kind = "G2" -> {<<page>> : page \in 1..DefaultMaxPages}
      [] kind = "Trustpilot" -> SeqsUpTo(Articles, MaxItems)

InitItem ==
    /\ itKind \in ItemKinds
    /\ itExclude \in (IF itKind = "Twitter" THEN ExcludeWordLists ELSE {<<>>})
    /\ itFetched \in FetchedItems(itKind)
    /\ itPc = "fetched"
    /\ itKept = <<>>
    /\ itReviews = <<>>
    /\ itResults = <<>>
    /\ ScrapeOff
    /\ RouterOff
    /\ AnalyzerOff
    /\ AdapterOff
    /\ PipelineOff

\* part_004 377: `tweets = s.filterTweets(tweets)`
FilterStep ==
    /\ itKind = "Twitter"
    /\ itPc = "fetched"
    /\ itKept' = FilterTweets(itFetched, itExclude)
    /\ itPc' = "filtered"
    /\ UNCHANGED <<itKind, itExclude, itFetched, itReviews, itResults>>
    /\ UNCHANGED notItem

\* part_004 379-383: every tweet left is converted and appended
ConvertStep ==
    /\ itKind = "Twitter"
    /\ itPc = "filtered"
    /\ itReviews' = [i \in 1..Len(itKept) |-> ConvertTweetToReview(itKept[i])]
    /\ itPc' = "converted"
    /\ UNCHANGED <<itKind, itExclude, itFetched, itKept, itResults>>
    /\ UNCHANGED notItem

\* parseHTMLResponse of G2 for the page fetched
ParseG2Step ==
    /\ itKind = "G2"
    /\ itPc = "fetched"
    /\ itReviews' = G2Reviews(itFetched[1])
    /\ itPc' = "converted"
    /\ UNCHANGED <<itKind, itExclude, itFetched, itKept, itResults>>
    /\ UNCHANGED notItem

\* scrapePage of Trustpilot: one review for every article of the page
ParseTrustpilotStep ==
    /\ itKind = "Trustpilot"
    /\ itPc = "fetched"
    /\ itReviews' = [i \in 1..Len(itFetched) |-> TrustpilotReview(itFetched[i], 1, i - 1)]
    /\ itPc' = "converted"
    /\ UNCHANGED <<itKind, itExclude, itFetched, itKept, itResults>>
    /\ UNCHANGED notItem

\* the driver passes the next review to Analyze, which runs analyzeLocal on it
AnalyzeLocalStep ==
    /\ itPc = "converted"
    /\ Len(itResults) < Len(itReviews)
    /\ \E result \in AnalyzeLocalOf(itReviews[Len(itResults) + 1]) :
        itResults' = Append(itResults, result)
    /\ itPc' = IF Len(itResults) + 1 = Len(itReviews) THEN "analyzed" ELSE "converted"
    /\ UNCHANGED <<itKind, itExclude, itFetched, itKept, itReviews>>
    /\ UNCHANGED notItem

NextItem ==
    \/ FilterStep
    \/ ConvertStep
    \/ ParseG2Step
    \/ ParseTrustpilotStep
    \/ AnalyzeLocalStep

SpecItem == InitItem /\ [][NextItem]_vars

\* C22: every review an adapter returns has no rating or a rating from 1 to 5,
\* the rating the Twitter adapter derives from retweets and favorites included.
C22_RatingsWithinOneToFive ==
    \A i \in 1..Len(itReviews) :
        \/ itReviews[i].rating.isNil
        \/ itReviews[i].rating.tenths >= 10 /\ itReviews[i].rating.tenths <= 50

\* C21: every result of the local strategy has a sentiment score within
\* [-1, 1], whatever the word counts, the amplification and the rating of the
\* review, for the reviews the adapters make.
C21_SentimentScoreWithinUnitInterval ==
    \A i \in 1..Len(itResults) :
        itResults[i].sentimentScore >= -Unit /\ itResults[i].sentimentScore <= Unit

\* the confidence the claim gives for n matched keywords
ClaimedConfidence(n) ==
    IF n = 0 THEN Unit \div 2
    ELSE IF n <= 3 THEN (3 * Unit) \div 10
    ELSE IF n >= 10 THEN Unit
    ELSE (n * Unit) \div 10

\* C23: the confidence of the local strategy lies within [0.3, 1.0]; it is 0.5
\* when no keyword matches and, for n >= 1 matched keywords, n/10 raised to
\* 0.3 and capped at 1.0.
C23_ConfidenceFromKeywordCount ==
    \A i \in 1..Len(itResults) :
        /\ itResults[i].confidence >= (3 * Unit) \div 10
        /\ itResults[i].confidence <= Unit
        /\ itResults[i].confidence = ClaimedConfidence(Cardinality(itResults[i].keywords))

\* a page was analyzed with one keyword in one review, raised to 0.3, and
\* eleven in another, capped at 1.0
C23_Witness ==
    /\ itKind = "Trustpilot"
    /\ itPc = "analyzed"
    /\ \E i \in 1..Len(itResults) :
          Cardinality(itResults[i].keywords) = 1 /\ itResults[i].confidence = (3 * Unit) \div 10
    /\ \E i \in 1..Len(itResults) :
          Cardinality(itResults[i].keywords) = 11 /\ itResults[i].confidence = Unit

\* C24 (as stated): the local strategy scores the lower-cased concatenation of
\* title and content, so a word that is only in the title of a review counts
\* for the score, the keywords and the category as it would in the content.
C24_TitleIsScoredWithContent ==
    \A i \in 1..Len(itResults) :
        itResults[i] \in
            AnalyzeLocal(Review(itReviews[i].id, TextStats(LocalTextWithTitle(itReviews[i])),
                                itReviews[i].rating))

\* C24 (amended): the local strategy scores the lower-cased content alone; the
\* title of a review changes nothing in the result.
C24_TitleDoesNotChangeResult ==
    \A i \in 1..Len(itResults) :
        /\ itResults[i] \in AnalyzeLocalOf([itReviews[i] EXCEPT !.title = <<>>])
        /\ itResults[i].keywords \subseteq TermsOf(itReviews[i].content)

\* a review whose title holds two negative words and a keyword and whose
\* content holds neither was analyzed: the score is not negative and the
\* keyword of the title is not matched
C24_Witness ==
    /\ itKind = "Trustpilot"
    /\ \E i \in 1..Len(itResults) :
          /\ itReviews[i].title = <<"Terrible", Blank, "crash">>
          /\ itReviews[i].content = <<"dns">>
          /\ itResults[i].sentimentScore >= 0
          /\ itResults[i].keywords = {"dns"}

\* C25: every review the driver passes to Analyze has non-empty content, for
\* every review an adapter can return.
C25_AnalyzedContentNonEmpty ==
    \A i \in 1..Len(itResults) : itReviews[i].content # <<>>

\* the tweets of a search whose text contains no configured exclude word
WithoutExcludeWord(tweets, excludeWords) ==
    SelectSeq(tweets,
              LAMBDA tweet :
                  \A k \in 1..Len(excludeWords) :
                      ~Contains(ToLower(tweet.text), ToLower(excludeWords[k])))

\* C29: no review of the Twitter adapter has content that contains, case
\* ignored, a configured exclude word, and every fetched tweet that contains
\* no exclude word is returned as a review with the id "twitter-" followed by
\* the id of the tweet, in the order of arrival.
C29_ExcludeWordsFilteredAndOthersKept ==
    (itKind = "Twitter" /\ itPc \in {"converted", "analyzed"}) =>
        /\ \A i \in 1..Len(itReviews) :
              \A k \in 1..Len(itExclude) :
                  ~Contains(ToLower(itReviews[i].content), ToLower(itExclude[k]))
        /\ [i \in 1..Len(itReviews) |-> itReviews[i].id]
              = [i \in 1..Len(WithoutExcludeWord(itFetched, itExclude)) |->
                    <<"twitter-", WithoutExcludeWord(itFetched, itExclude)[i].id>>]

====
